---- MODULE Spec2Model ----
(***************************************************************************)
(* Resilient operation execution of aws-contact-sync: the per-operation    *)
(* circuit breaker (src/error_handling/circuit_breaker.py), the error      *)
(* classifier (src/error_handling/error_classifier.py) and the recovery    *)
(* manager (src/error_handling/recovery_manager.py).                       *)
(*                                                                         *)
(* Spec   : one CircuitBreaker shared by two caller threads, with          *)
(*          the operational controls and a clock.  A step is one critical  *)
(*          section of the breaker's lock, or the wrapped function running *)
(*          outside it.                                                    *)
(* SpecRM : one RecoveryManager whose execute_with_recovery is called      *)
(*          again and again by one caller, each time with a wrapped        *)
(*          function whose behaviour is drawn from a small set.            *)
(***************************************************************************)
EXTENDS Integers, Sequences, FiniteSets, TLC

\* ------------------------------------------------------------------ bounds
MaxRequests == 5     \* Spec: calls are made while stats.total_requests < MaxRequests
MaxThreshold == 3    \* Spec: failure_threshold and success_threshold range over 1..MaxThreshold
MaxTimeout == 1      \* Spec: config.timeout ranges over 1..MaxTimeout (clock units)
MaxTime == 2         \* Spec: the clock stops advancing at MaxTime
MaxControls == 1     \* Spec: reset/force_open/force_closed are called at most MaxControls times

MaxAttempts == 3     \* SpecRM: config.max_retry_attempts ranges over 0..MaxAttempts
MaxRuns == 2         \* SpecRM: execute_with_recovery is called at most MaxRuns times
MaxTicks == 1        \* SpecRM: pauses of circuit_breaker_timeout besides the sleeps

MaxCalls == 4        \* SpecMT: call_with_breaker is called at most MaxCalls times
MaxFallbackCalls == 2 \* SpecFB: execute_with_fallback is called at most this often
MaxDelayAttempts == 4 \* SpecDelay: config.max_retry_attempts
MaxHealthControls == 2 \* SpecHealth: force_open and force_closed calls

\* the caller threads that share the breaker in Spec
Threads == {"t1", "t2"}

\* ------------------------------------------------------- program constants
DefaultSuccessThreshold == 3   \* CircuitBreakerConfig.success_threshold
DefaultJitterFactor == 10      \* RecoveryConfig.jitter_factor 0.1, in hundredths
MinJitteredDelay == 100        \* the 0.1 s floor of a jittered delay, in ms
DefaultMaxAttempts == 3        \* RetryConfig.max_attempts
ClientFailureThreshold == 5    \* AccountManagementClient: circuit_breaker_failure_threshold
ClientBreakerTimeout == 60000  \* AccountManagementClient: circuit_breaker_timeout 60.0 s, in ms

Max(a, b) == IF a >= b THEN a ELSE b
Min(a, b) == IF a <= b THEN a ELSE b

\* ------------------------------------------------- circuit_breaker.py: data
CLOSED == "closed"
OPEN == "open"
HALF_OPEN == "half_open"
CircuitState == {CLOSED, OPEN, HALF_OPEN}

\* CircuitBreakerConfig: the three fields the code reads (reset_timeout,
\* max_timeout and backoff_multiplier are stored and never read).
CircuitBreakerConfig(failure_threshold, success_threshold, timeout) ==
    [failure_threshold |-> failure_threshold,
     success_threshold |-> success_threshold,
     timeout |-> timeout]

\* CircuitBreakerStats(); last_failure_time and last_success_time are written
\* by _record_failure/_record_success and read by no decision: left out.
CircuitBreakerStats ==
    [total_requests |-> 0, successful_requests |-> 0, failed_requests |-> 0,
     rejected_requests |-> 0, state_changes |-> 0, current_timeout |-> 60]

\* CircuitBreaker.__init__ at clock value t
CircuitBreaker(name, config, t) ==
    [name |-> name,
     config |-> config,
     stats |-> [CircuitBreakerStats EXCEPT !.current_timeout = config.timeout],
     state |-> CLOSED,
     consecutive_failures |-> 0,
     consecutive_successes |-> 0,
     last_state_change |-> t]

\* exceptions as values
NoError == [type |-> "None", code |-> "", retry_after |-> 0]
CircuitBreakerError(circuit_name, retry_after) ==
    [type |-> "CircuitBreakerError", code |-> circuit_name, retry_after |-> retry_after]

\* -------------------------------------------- circuit_breaker.py: transitions
\* _transition_to_open without the test of the current state
_transition_to_open_unguarded(b, t) ==
    [b EXCEPT !.state = OPEN,
              !.stats.state_changes = @ + 1,
              !.last_state_change = t,
              !.stats.current_timeout = b.config.timeout]

\* _transition_to_open applying the configured backoff multiplier of 2 to the
\* open interval
_transition_to_open_backing_off(b, t) ==
    IF b.state # OPEN
    THEN [b EXCEPT !.state = OPEN,
                   !.stats.state_changes = @ + 1,
                   !.last_state_change = t,
                   !.stats.current_timeout = b.stats.current_timeout * 2]
    ELSE b

_transition_to_open(b, t) ==
    IF b.state # OPEN
    THEN [b EXCEPT !.state = OPEN,
                   !.stats.state_changes = @ + 1,
                   !.last_state_change = t,
                   !.stats.current_timeout = b.config.timeout]
    ELSE b

_transition_to_half_open(b, t) ==
    IF b.state # HALF_OPEN
    THEN [b EXCEPT !.state = HALF_OPEN,
                   !.stats.state_changes = @ + 1,
                   !.last_state_change = t,
                   !.consecutive_successes = 0]
    ELSE b

\* _transition_to_closed leaving consecutive_failures as it is
_transition_to_closed_keeping_failures(b, t) ==
    IF b.state # CLOSED
    THEN [b EXCEPT !.state = CLOSED,
                   !.stats.state_changes = @ + 1,
                   !.last_state_change = t,
                   !.stats.current_timeout = b.config.timeout]
    ELSE b

_transition_to_closed(b, t) ==
    IF b.state # CLOSED
    THEN [b EXCEPT !.state = CLOSED,
                   !.stats.state_changes = @ + 1,
                   !.last_state_change = t,
                   !.consecutive_failures = 0,
                   !.stats.current_timeout = b.config.timeout]
    ELSE b

\* _check_timeout_state that never ends the open interval
_check_timeout_state_never(b, t) == b

\* _check_timeout_state with the timeout compared by > instead of >=
_check_timeout_state_strict(b, t) ==
    IF b.state = OPEN /\ t - b.last_state_change > b.stats.current_timeout
    THEN _transition_to_half_open(b, t)
    ELSE b

_check_timeout_state(b, t) ==
    IF b.state = OPEN /\ t - b.last_state_change >= b.stats.current_timeout
    THEN _transition_to_half_open(b, t)
    ELSE b

_get_retry_after_time(b, t) ==
    IF b.state = OPEN
    THEN Max(0, b.stats.current_timeout - (t - b.last_state_change))
    ELSE 0

\* _record_success leaving consecutive_failures as it is
_record_success_keeping_failures(b, t) ==
    LET b1 == [b EXCEPT !.stats.successful_requests = @ + 1,
                        !.consecutive_successes = @ + 1]
    IN IF b1.state = HALF_OPEN
          /\ b1.consecutive_successes >= b1.config.success_threshold
       THEN _transition_to_closed(b1, t)
       ELSE b1

\* _record_success closing only after more than success_threshold successes
_record_success_late(b, t) ==
    LET b1 == [b EXCEPT !.stats.successful_requests = @ + 1,
                        !.consecutive_failures = 0,
                        !.consecutive_successes = @ + 1]
    IN IF b1.state = HALF_OPEN
          /\ b1.consecutive_successes > b1.config.success_threshold
       THEN _transition_to_closed(b1, t)
       ELSE b1

_record_success(b, t) ==
    LET b1 == [b EXCEPT !.stats.successful_requests = @ + 1,
                        !.consecutive_failures = 0,
                        !.consecutive_successes = @ + 1]
    IN IF b1.state = HALF_OPEN
          /\ b1.consecutive_successes >= b1.config.success_threshold
       THEN _transition_to_closed(b1, t)
       ELSE b1

\* _record_failure leaving failed_requests as it is
_record_failure_uncounted(b, t) ==
    LET b1 == [b EXCEPT !.consecutive_successes = 0,
                        !.consecutive_failures = @ + 1]
    IN IF b1.consecutive_failures >= b1.config.failure_threshold
       THEN _transition_to_open(b1, t)
       ELSE b1

\* _record_failure that counts the failure but never opens the breaker
_record_failure_never_opening(b, t) ==
    [b EXCEPT !.stats.failed_requests = @ + 1,
              !.consecutive_successes = 0,
              !.consecutive_failures = @ + 1]

\* _record_failure opening only after more than failure_threshold failures
_record_failure_late(b, t) ==
    LET b1 == [b EXCEPT !.stats.failed_requests = @ + 1,
                        !.consecutive_successes = 0,
                        !.consecutive_failures = @ + 1]
    IN IF b1.consecutive_failures > b1.config.failure_threshold
       THEN _transition_to_open(b1, t)
       ELSE b1

_record_failure(b, t) ==
    LET b1 == [b EXCEPT !.stats.failed_requests = @ + 1,
                        !.consecutive_successes = 0,
                        !.consecutive_failures = @ + 1]
    IN IF b1.consecutive_failures >= b1.config.failure_threshold
       THEN _transition_to_open(b1, t)
       ELSE b1

\* call admitting whatever the state of the breaker
call_admission_unchecked(b, t) ==
    LET b1 == [b EXCEPT !.stats.total_requests = @ + 1]
    IN [breaker |-> _check_timeout_state(b1, t), raised |-> NoError]

\* call admitting in CLOSED only: trial calls in HALF_OPEN are rejected too
call_admission_closed_only(b, t) ==
    LET b1 == [b EXCEPT !.stats.total_requests = @ + 1]
        b2 == _check_timeout_state(b1, t)
    IN IF b2.state # CLOSED
       THEN [breaker |-> [b2 EXCEPT !.stats.rejected_requests = @ + 1],
             raised |-> CircuitBreakerError(b2.name, _get_retry_after_time(b2, t))]
       ELSE [breaker |-> b2, raised |-> NoError]

\* call counting a rejected call as a failed one as well
call_admission_counting_failure(b, t) ==
    LET b1 == [b EXCEPT !.stats.total_requests = @ + 1]
        b2 == _check_timeout_state(b1, t)
    IN IF b2.state = OPEN
       THEN [breaker |-> [b2 EXCEPT !.stats.rejected_requests = @ + 1,
                                    !.stats.failed_requests = @ + 1],
             raised |-> CircuitBreakerError(b2.name, _get_retry_after_time(b2, t))]
       ELSE [breaker |-> b2, raised |-> NoError]

\* The first critical section of CircuitBreaker.call (lines 106-122): the
\* breaker after it and the exception it raises (NoError: admitted).
call_admission(b, t) ==
    LET b1 == [b EXCEPT !.stats.total_requests = @ + 1]
        b2 == _check_timeout_state(b1, t)
    IN IF b2.state = OPEN
       THEN [breaker |-> [b2 EXCEPT !.stats.rejected_requests = @ + 1],
             raised |-> CircuitBreakerError(b2.name, _get_retry_after_time(b2, t))]
       ELSE [breaker |-> b2, raised |-> NoError]

\* get_state returning the state without looking at the clock
get_state_read_only(b, t) ==
    [breaker |-> b, state |-> b.state]

\* get_state: the breaker after the call and the state returned
get_state(b, t) ==
    LET b1 == _check_timeout_state(b, t)
    IN [breaker |-> b1, state |-> b1.state]

\* reset that keeps the statistics object
reset_keeping_stats(b, t) ==
    [b EXCEPT !.state = CLOSED,
              !.stats.current_timeout = b.config.timeout,
              !.consecutive_failures = 0,
              !.consecutive_successes = 0,
              !.last_state_change = t]

reset(b, t) ==
    [b EXCEPT !.state = CLOSED,
              !.stats = [CircuitBreakerStats EXCEPT !.current_timeout = b.config.timeout],
              !.consecutive_failures = 0,
              !.consecutive_successes = 0,
              !.last_state_change = t]

force_open(b, t) == _transition_to_open(b, t)

force_closed(b, t) == _transition_to_closed(b, t)

\* --------------------------------------------- circuit_breaker.py: manager
\* get_breaker constructing a breaker at every call
get_breaker_replacing(registry, name, config, t) ==
    [n \in DOMAIN registry \cup {name} |->
        IF n = name THEN CircuitBreaker(name, config, t) ELSE registry[n]]

\* CircuitBreakerManager.get_breaker on the registry (a function from the
\* names already seen to their breakers): the registry after the call
get_breaker(registry, name, config, t) ==
    IF name \notin DOMAIN registry
    THEN registry @@ (name :> CircuitBreaker(name, config, t))
    ELSE registry

\* get_all_stats, lines 322-341: the state get_state returns for each breaker
\* (the other entries are copies of its counters)
get_all_stats(registry, t) ==
    [n \in DOMAIN registry |->
        [state |-> get_state(registry[n], t).state,
         total_requests |-> registry[n].stats.total_requests,
         state_changes |-> registry[n].stats.state_changes]]

\* get_health_status reporting a registry with some breaker OPEN as degraded
\* even when all are
get_health_status_never_unhealthy(registry, t) ==
    LET stats == get_all_stats(registry, t)
        total_breakers == Cardinality(DOMAIN stats)
        open_breakers == Cardinality({n \in DOMAIN stats : stats[n].state = OPEN})
        half_open_breakers == Cardinality({n \in DOMAIN stats : stats[n].state = HALF_OPEN})
    IN [overall_health |->
            IF open_breakers > 0 THEN "degraded"
            ELSE IF half_open_breakers > 0 THEN "recovering"
            ELSE "healthy",
        total_breakers |-> total_breakers,
        closed_breakers |-> total_breakers - open_breakers - half_open_breakers,
        half_open_breakers |-> half_open_breakers,
        open_breakers |-> open_breakers,
        breaker_details |-> stats]

\* get_health_status, lines 357-376
get_health_status(registry, t) ==
    LET stats == get_all_stats(registry, t)
        total_breakers == Cardinality(DOMAIN stats)
        open_breakers == Cardinality({n \in DOMAIN stats : stats[n].state = OPEN})
        half_open_breakers == Cardinality({n \in DOMAIN stats : stats[n].state = HALF_OPEN})
    IN [overall_health |->
            IF open_breakers > 0
            THEN (IF open_breakers < total_breakers THEN "degraded" ELSE "unhealthy")
            ELSE IF half_open_breakers > 0 THEN "recovering"
            ELSE "healthy",
        total_breakers |-> total_breakers,
        closed_breakers |-> total_breakers - open_breakers - half_open_breakers,
        half_open_breakers |-> half_open_breakers,
        open_breakers |-> open_breakers,
        breaker_details |-> stats]

\* -------------------------------------------------------- error_classifier.py
\* exceptions raised by a wrapped function, as values
ClientError(code) == [type |-> "ClientError", code |-> code, retry_after |-> 0]
OtherError(type) == [type |-> type, code |-> "", retry_after |-> 0]

\* ErrorClassification; retry_delay_multiplier is in tenths (2.0 is 20),
\* max_retry_attempts None is 0, user_message (log text) is left out.
ErrorClassification(category, severity, is_retryable, should_circuit_break, retry_delay_multiplier, max_retry_attempts, recovery_action) ==
    [category |-> category, severity |-> severity, is_retryable |-> is_retryable,
     should_circuit_break |-> should_circuit_break,
     retry_delay_multiplier |-> retry_delay_multiplier,
     max_retry_attempts |-> max_retry_attempts,
     recovery_action |-> recovery_action]

RateLimitClassification ==
    ErrorClassification("rate_limit", "medium", TRUE, FALSE, 20, 5, "exponential_backoff")
TransientClassification ==
    ErrorClassification("transient", "high", TRUE, TRUE, 15, 3, "circuit_breaker")
NetworkClassification ==
    ErrorClassification("network", "medium", TRUE, FALSE, 10, 3, "retry")
PermissionClassification ==
    ErrorClassification("permission", "high", FALSE, FALSE, 10, 0, "skip_account")
InvalidClassification ==
    ErrorClassification("configuration", "medium", FALSE, FALSE, 10, 0, "log_and_skip")
NotFoundClassification ==
    ErrorClassification("configuration", "medium", FALSE, FALSE, 10, 0, "skip_account")
OrganizationClassification ==
    ErrorClassification("configuration", "critical", FALSE, TRUE, 10, 0, "abort_operation")

AWS_ERROR_MAPPINGS ==
    [code \in {"ThrottlingException", "TooManyRequestsException",
               "ServiceUnavailableException", "InternalServerError",
               "RequestTimeout", "RequestTimeoutException",
               "AccessDeniedException", "UnauthorizedOperation", "ForbiddenException",
               "ValidationException", "InvalidParameterValue",
               "ResourceNotFoundException", "AccountNotFoundException",
               "ConflictException",
               "AWSOrganizationsNotInUseException", "OrganizationNotFoundException"} |->
        CASE code \in {"ThrottlingException", "TooManyRequestsException"}
                -> RateLimitClassification
          [] code \in {"ServiceUnavailableException", "InternalServerError"}
                -> TransientClassification
          [] code \in {"RequestTimeout", "RequestTimeoutException"}
                -> NetworkClassification
          [] code \in {"AccessDeniedException", "UnauthorizedOperation", "ForbiddenException"}
                -> PermissionClassification
          [] code \in {"ValidationException", "InvalidParameterValue", "ConflictException"}
                -> InvalidClassification
          [] code \in {"ResourceNotFoundException", "AccountNotFoundException"}
                -> NotFoundClassification
          [] OTHER -> OrganizationClassification]

\* Python's `sub in error_code.lower()` for the codes outside AWS_ERROR_MAPPINGS
\* that the model uses
LowerContains(code, sub) ==
    <<code, sub>> \in {<<"RequestLimitExceeded", "limit">>,
                       <<"UnauthorizedAccess", "unauthorized">>,
                       <<"UnauthorizedAccess", "access">>,
                       <<"InvalidInputException", "invalid">>}

\* Error codes that are not strings: {'Code': None}, {'Code': 7}, {'Code': [..]}.
\* `error_code in AWS_ERROR_MAPPINGS` raises TypeError for the unhashable one,
\* `error_code.lower()` raises AttributeError for the other two.
NonStringCodes == {"<None>", "<int>", "<list>"}

\* An exception leaving a function
Raised(exception) == [raised |-> exception]

IsRaised(value) == "raised" \in DOMAIN value

\* _classify_client_error over the mapping table it is given (the class
\* attribute AWS_ERROR_MAPPINGS, shared by every classifier)
_classify_client_error_with(mappings, error) ==
    IF error.code = "<list>" THEN Raised("TypeError")
    ELSE IF error.code \in DOMAIN mappings
    THEN mappings[error.code]
    ELSE IF error.code \in NonStringCodes THEN Raised("AttributeError")
    ELSE IF LowerContains(error.code, "throttl") \/ LowerContains(error.code, "limit")
    THEN RateLimitClassification
    ELSE IF \/ LowerContains(error.code, "access")
            \/ LowerContains(error.code, "denied")
            \/ LowerContains(error.code, "unauthorized")
    THEN PermissionClassification
    ELSE IF LowerContains(error.code, "invalid") \/ LowerContains(error.code, "validation")
    THEN InvalidClassification
    ELSE ErrorClassification("unknown", "medium", TRUE, FALSE, 10, 2, "retry")

_classify_client_error(error) == _classify_client_error_with(AWS_ERROR_MAPPINGS, error)

_classify_unknown_error(error) ==
    ErrorClassification("unknown", "medium", FALSE, FALSE, 10, 0, "log_and_skip")

_get_default_classification_retryable ==
    ErrorClassification("unknown", "medium", TRUE, FALSE, 10, 0, "retry")

_get_default_classification ==
    ErrorClassification("unknown", "medium", FALSE, FALSE, 10, 0, "log_and_skip")

\* the body of the try block of classify_error
_classify_error_try(mappings, error) ==
    IF error.type = "ClientError" THEN _classify_client_error_with(mappings, error)
    ELSE IF error.type = "BotoCoreError" THEN NetworkClassification
    ELSE IF error.type \in {"ConnectionError", "TimeoutError"} THEN NetworkClassification
    ELSE IF error.type = "ValueError" THEN InvalidClassification
    ELSE _classify_unknown_error(error)

classify_error_with(mappings, error) ==
    IF IsRaised(_classify_error_try(mappings, error))
    THEN _get_default_classification
    ELSE _classify_error_try(mappings, error)

classify_error(error) == classify_error_with(AWS_ERROR_MAPPINGS, error)

should_notify_above_three(classification, error_count) ==
    IF classification.severity = "critical" THEN TRUE
    ELSE IF classification.severity = "high" THEN TRUE
    ELSE IF classification.severity = "medium" /\ error_count > 3 THEN TRUE
    ELSE FALSE

should_notify(classification, error_count) ==
    IF classification.severity = "critical" THEN TRUE
    ELSE IF classification.severity = "high" THEN TRUE
    ELSE IF classification.severity = "medium" /\ error_count >= 3 THEN TRUE
    ELSE FALSE

\* -------------------------------------------------------- recovery_manager.py
\* Times of SpecRM are in milliseconds.
RecoveryConfig(max_retry_attempts, base_retry_delay, max_retry_delay, jitter_factor, circuit_breaker_enabled, circuit_breaker_failure_threshold, circuit_breaker_timeout, enable_exponential_backoff, enable_jitter) ==
    [max_retry_attempts |-> max_retry_attempts,
     base_retry_delay |-> base_retry_delay,
     max_retry_delay |-> max_retry_delay,
     jitter_factor |-> jitter_factor,
     circuit_breaker_enabled |-> circuit_breaker_enabled,
     circuit_breaker_failure_threshold |-> circuit_breaker_failure_threshold,
     circuit_breaker_timeout |-> circuit_breaker_timeout,
     enable_exponential_backoff |-> enable_exponential_backoff,
     enable_jitter |-> enable_jitter]

RecoveryAttempt(attempt_number, error, success, delay_before_attempt, recovery_action) ==
    [attempt_number |-> attempt_number, error |-> error, success |-> success,
     delay_before_attempt |-> delay_before_attempt, recovery_action |-> recovery_action]

\* a RecoveryResult carrying the error of the first attempt
RecoveryResult_first_error(success, result, error, attempts, recovery_strategy) ==
    [success |-> success, result |-> result,
     error |-> IF attempts = <<>> THEN error ELSE attempts[1].error,
     attempts |-> attempts, recovery_strategy |-> recovery_strategy]

\* RecoveryResult; result is "value" for what the function returned and
\* "None" otherwise; total_duration is left out.
RecoveryResult(success, result, error, attempts, recovery_strategy) ==
    [success |-> success, result |-> result, error |-> error, attempts |-> attempts,
     recovery_strategy |-> recovery_strategy]

RECURSIVE Pow(_, _)
Pow(x, n) == IF n = 0 THEN 1 ELSE x * Pow(x, n - 1)

\* the exponential delay with attempt_num as the exponent
CappedDelay_exponent_off_by_one(config, attempt_num, classification, base_delay, max_delay) ==
    LET multiplier == classification.retry_delay_multiplier
        delay == IF config.enable_exponential_backoff
                 THEN (base_delay * Pow(multiplier, attempt_num)) \div Pow(10, attempt_num)
                 ELSE (base_delay * multiplier * attempt_num) \div 10
    IN Min(delay, max_delay)

\* _calculate_retry_delay, lines 246-257: the delay before jitter.  The
\* multiplier is in tenths, jitter_factor in hundredths.
CappedDelay(config, attempt_num, classification, base_delay, max_delay) ==
    LET multiplier == classification.retry_delay_multiplier
        delay == IF config.enable_exponential_backoff
                 THEN (base_delay * Pow(multiplier, attempt_num - 1))
                          \div Pow(10, attempt_num - 1)
                 ELSE (base_delay * multiplier * attempt_num) \div 10
    IN Min(delay, max_delay)

\* _calculate_retry_delay applying the 0.1 s floor without jitter as well
_calculate_retry_delay_always_floored(config, attempt_num, classification, base_delay, max_delay) ==
    LET capped == CappedDelay(config, attempt_num, classification, base_delay, max_delay)
        jitter_range == (capped * config.jitter_factor) \div 100
    IN IF config.enable_jitter
       THEN {Max(MinJitteredDelay, capped + jitter) : jitter \in {-jitter_range, 0, jitter_range}}
       ELSE {Max(MinJitteredDelay, capped)}

\* _calculate_retry_delay: the values it can return.  random.uniform(-r, r)
\* is any value of [-r, r]; the model takes its two ends and 0.
_calculate_retry_delay(config, attempt_num, classification, base_delay, max_delay) ==
    LET delay == CappedDelay(config, attempt_num, classification, base_delay, max_delay)
        jitter_range == (delay * config.jitter_factor) \div 100
    IN IF config.enable_jitter
       THEN {Max(MinJitteredDelay, delay + jitter) : jitter \in {-jitter_range, 0, jitter_range}}
       ELSE {delay}

\* ------------------------------------------------------------------- state
VARIABLES
    now,              \* time.time()
    circuit_breaker,  \* Spec: the CircuitBreaker instance
    threads,          \* Spec: where each caller thread is inside CircuitBreaker.call
    failure_run,      \* Spec, history: failures recorded since the last recorded
                      \* success and the last reset/force_open/force_closed
    success_run,      \* Spec, history: successes recorded since the breaker last
                      \* became HALF_OPEN with no failure recorded since
    controls,         \* Spec, history: reset/force_open/force_closed calls so far
    rm_config,        \* SpecRM: RecoveryManager.config
    breakers,         \* SpecRM: circuit_breaker_manager._breakers, name -> breaker
    pc,               \* SpecRM: where the caller is in execute_with_recovery
    operation_name,   \* SpecRM: argument of the current execute_with_recovery
    script,           \* SpecRM: operation_func: what its i-th invocation does
    attempt_num,      \* SpecRM: the loop variable
    attempts,         \* SpecRM: the list of RecoveryAttempt
    last_error,       \* SpecRM: last_error
    delay,            \* SpecRM: the delay being slept
    result,           \* SpecRM: the RecoveryResult returned last
    invoked,          \* SpecRM, history: invocations of operation_func in this call
    sleeps,           \* SpecRM, history: time.sleep calls in this call
    runs,             \* SpecRM, history: execute_with_recovery calls so far
    ticks,            \* SpecRM, history: pauses taken
    locks,            \* SpecMT: who holds CircuitBreakerManager._lock and the
                      \* breaker's _lock: a thread or "free"
    mt,               \* SpecMT: each thread's position in call_with_breaker and
                      \* its locals
    created,          \* SpecMT, history: CircuitBreaker instances constructed for
                      \* the name, and the config the first get_breaker passed
    calls,            \* SpecMT, history: call() invocations begun
    health,           \* SpecHealth: what get_health_status returned last
    fb,               \* SpecFB: where the caller is in execute_with_fallback,
                      \* with history of the two sub-calls
    classifier,       \* SpecClassify: the error being classified, what
                      \* classify_error and should_notify returned, and the
                      \* classifications returned so far
    sync_op,          \* SpecSync, SpecTracker: the SyncOperation of
                      \* initiate_account_synchronization, resp. the item of
                      \* the state table
    processor         \* SpecProcessor: the call of process_account_update

cbVars == <<circuit_breaker, threads, failure_run, success_run, controls>>
rmVars == <<rm_config, breakers, pc, operation_name, script, attempt_num, attempts,
            last_error, delay, result, invoked, sleeps, runs, ticks>>
\* rmVars without the registry
rmOther == <<rm_config, pc, operation_name, script, attempt_num, attempts, last_error,
             delay, result, invoked, sleeps, runs, ticks>>
mgrVars == <<locks, mt, created, calls, health>>
fbVars == <<fb>>
handlerVars == <<classifier, sync_op, processor>>
vars == <<now, cbVars, rmVars, mgrVars, fbVars, handlerVars>>

\* success_run after a step that only runs _check_timeout_state
SuccessRunAfterCheck(b, b1) ==
    IF b.state # HALF_OPEN /\ b1.state = HALF_OPEN THEN 0 ELSE success_run

\* A caller thread's position inside CircuitBreaker.call: "idle" (not in a
\* call) or "in_func" (past the admission check, lock released, the wrapped
\* function running).
ThreadPc == {"idle", "in_func"}

\* the recovery manager's variables in Spec, which has no recovery manager
NoResult == RecoveryResult(FALSE, "None", NoError, <<>>, "None")
RMUnused ==
    /\ rm_config = RecoveryConfig(0, 0, 0, 0, FALSE, 0, 0, FALSE, FALSE)
    /\ breakers = <<>>
    /\ pc = "idle"
    /\ operation_name = ""
    /\ script = <<>>
    /\ attempt_num = 0
    /\ attempts = <<>>
    /\ last_error = NoError
    /\ delay = 0
    /\ result = NoResult
    /\ invoked = 0
    /\ sleeps = 0
    /\ runs = 0
    /\ ticks = 0

\* the variables of the other specifications in Spec and SpecRM
NoHealth == [overall_health |-> "None"]
NoFallback == [phase |-> "none"]
MgrUnused ==
    /\ locks = [manager |-> "free", breaker |-> "free"]
    /\ mt = <<>>
    /\ created = [count |-> 0]
    /\ calls = 0
    /\ health = NoHealth
FBUnused == fb = NoFallback
NoClassifier == [phase |-> "none"]
NoSyncOperation == [phase |-> "none"]
NoProcessor == [phase |-> "none"]
HandlersUnused ==
    /\ classifier = NoClassifier
    /\ sync_op = NoSyncOperation
    /\ processor = NoProcessor

\* --------------------------------------------------------------- Spec: Init
Init ==
    /\ now = 0
    /\ \E k \in 1..MaxThreshold, s \in 1..MaxThreshold, to \in 1..MaxTimeout :
          circuit_breaker = CircuitBreaker("test_circuit", CircuitBreakerConfig(k, s, to), 0)
    /\ threads = [t \in Threads |-> "idle"]
    /\ failure_run = 0
    /\ success_run = 0
    /\ controls = 0
    /\ RMUnused
    /\ MgrUnused
    /\ FBUnused
    /\ HandlersUnused

\* ------------------------------------------------------------ Spec: actions
\* call(), lines 106-122: count the request, check the timeout, reject if OPEN
CallAdmission(t) ==
    /\ threads[t] = "idle"
    /\ circuit_breaker.stats.total_requests < MaxRequests
    /\ LET r == call_admission(circuit_breaker, now)
       IN /\ circuit_breaker' = r.breaker
          /\ threads' = [threads EXCEPT ![t] =
                IF r.raised.type = "CircuitBreakerError" THEN "idle" ELSE "in_func"]
          /\ success_run' = SuccessRunAfterCheck(circuit_breaker, r.breaker)
    /\ UNCHANGED <<handlerVars, mgrVars, fbVars, now, failure_run, controls, rmVars>>

\* call(), lines 126-128: the wrapped function returns, outside the lock;
\* then _record_success under the lock
CallSuccess(t) ==
    /\ threads[t] = "in_func"
    /\ circuit_breaker' = _record_success(circuit_breaker, now)
    /\ threads' = [threads EXCEPT ![t] = "idle"]
    /\ failure_run' = 0
    /\ success_run' = IF circuit_breaker.state = HALF_OPEN THEN success_run + 1 ELSE 0
    /\ UNCHANGED <<handlerVars, mgrVars, fbVars, now, controls, rmVars>>

\* call(), lines 126, 130-132: the wrapped function raises, outside the lock;
\* then _record_failure under the lock, and the exception is re-raised
CallFailure(t) ==
    /\ threads[t] = "in_func"
    /\ circuit_breaker' = _record_failure(circuit_breaker, now)
    /\ threads' = [threads EXCEPT ![t] = "idle"]
    /\ failure_run' = failure_run + 1
    /\ success_run' = 0
    /\ UNCHANGED <<handlerVars, mgrVars, fbVars, now, controls, rmVars>>

\* get_state() when it changes something (OPEN to HALF_OPEN after the timeout)
GetState ==
    /\ circuit_breaker' = get_state(circuit_breaker, now).breaker
    /\ circuit_breaker' # circuit_breaker
    /\ success_run' = SuccessRunAfterCheck(circuit_breaker, circuit_breaker')
    /\ UNCHANGED <<handlerVars, mgrVars, fbVars, now, threads, failure_run, controls, rmVars>>

Reset ==
    /\ controls < MaxControls
    /\ controls' = controls + 1
    /\ circuit_breaker' = reset(circuit_breaker, now)
    /\ failure_run' = 0
    /\ success_run' = 0
    /\ UNCHANGED <<handlerVars, mgrVars, fbVars, now, threads, rmVars>>

ForceOpen ==
    /\ controls < MaxControls
    /\ controls' = controls + 1
    /\ circuit_breaker' = force_open(circuit_breaker, now)
    /\ failure_run' = 0
    /\ success_run' = 0
    /\ UNCHANGED <<handlerVars, mgrVars, fbVars, now, threads, rmVars>>

ForceClosed ==
    /\ controls < MaxControls
    /\ controls' = controls + 1
    /\ circuit_breaker' = force_closed(circuit_breaker, now)
    /\ failure_run' = 0
    /\ success_run' = 0
    /\ UNCHANGED <<handlerVars, mgrVars, fbVars, now, threads, rmVars>>

\* the clock advances
Tick ==
    /\ now < MaxTime
    /\ now' = now + 1
    /\ UNCHANGED <<handlerVars, mgrVars, fbVars, circuit_breaker, threads, failure_run, success_run, controls, rmVars>>

Next ==
    \/ \E t \in Threads : CallAdmission(t)
    \/ \E t \in Threads : CallSuccess(t)
    \/ \E t \in Threads : CallFailure(t)
    \/ GetState
    \/ Reset
    \/ ForceOpen
    \/ ForceClosed
    \/ Tick

Spec == Init /\ [][Next]_vars

\* ============================================================== SpecRM
\* What one invocation of the wrapped function does: return (NoError) or
\* raise one of these errors.
Outcomes ==
    {NoError, ClientError("ThrottlingException"),
     ClientError("ServiceUnavailableException"), ClientError("AccessDeniedException")}

OperationNames == {"get_contact_information_current"}

RetryableOutcomes == {e \in Outcomes : e # NoError /\ classify_error(e).is_retryable}

\* The behaviours of operation_func over n invocations: one retryable error
\* up to some invocation and from then on one outcome (the loop never invokes
\* the function again after a return or a non-retryable error)
Scripts(n) ==
    {scr \in [1..n -> Outcomes] :
        /\ \A i \in 1..n : scr[i] \notin RetryableOutcomes =>
               \A j \in i..n : scr[j] = scr[i]
        /\ \A i, j \in 1..n :
               (scr[i] \in RetryableOutcomes /\ scr[j] \in RetryableOutcomes)
                   => scr[i] = scr[j]}

\* RecoveryConfig as tests/test_error_handling.py builds it (base 0.1 s, max
\* 1.0 s), with a failure threshold of 2 and a breaker timeout of 0.25 s, in
\* three settings of the switches <<circuit_breaker_enabled,
\* enable_exponential_backoff, enable_jitter>>
TestConfigs ==
    {RecoveryConfig(n, 100, 1000, DefaultJitterFactor, sw[1], 2, 250, sw[2], sw[3]) :
        n \in 0..MaxAttempts,
        sw \in {<<TRUE, TRUE, TRUE>>, <<TRUE, FALSE, FALSE>>, <<FALSE, TRUE, FALSE>>}}

\* RetryConfig(max_attempts, base_delay = 1, max_delay = 10), in seconds
RetryConfig(max_attempts) == [max_attempts |-> max_attempts, base_delay |-> 1, max_delay |-> 10]

\* AccountManagementClient.__init__: the RecoveryConfig it gives its
\* RecoveryManager
AccountManagementClient(retry_config) ==
    RecoveryConfig(retry_config.max_attempts, retry_config.base_delay * 1000,
                   retry_config.max_delay * 1000, DefaultJitterFactor,
                   TRUE, ClientFailureThreshold, ClientBreakerTimeout, TRUE, TRUE)

\* the clients built with max_attempts from 1 (the least RetryConfig accepts)
\* to its default
ClientConfigs == {AccountManagementClient(RetryConfig(n)) : n \in 1..DefaultMaxAttempts}

InitRM ==
    /\ now = 0
    /\ circuit_breaker = CircuitBreaker("test_circuit", CircuitBreakerConfig(1, 1, 1), 0)
    /\ threads = [t \in Threads |-> "idle"]
    /\ failure_run = 0
    /\ success_run = 0
    /\ controls = 0
    /\ rm_config \in TestConfigs \cup ClientConfigs
    /\ breakers = <<>>
    /\ pc = "idle"
    /\ operation_name = ""
    /\ script = <<>>
    /\ attempt_num = 0
    /\ attempts = <<>>
    /\ last_error = NoError
    /\ delay = 0
    /\ result = NoResult
    /\ invoked = 0
    /\ sleeps = 0
    /\ runs = 0
    /\ ticks = 0
    /\ MgrUnused
    /\ FBUnused
    /\ HandlersUnused

\* execute_with_recovery, lines 101-115: a new call with operation_func
\* behaving as scr; the breaker is obtained, the loop is entered (or, with
\* max_retry_attempts = 0, skipped: lines 215-227)
BeginRecovery(name, scr) ==
    /\ runs' = runs + 1
    /\ operation_name' = name
    /\ script' = scr
    /\ attempts' = <<>>
    /\ last_error' = NoError
    /\ invoked' = 0
    /\ sleeps' = 0
    /\ delay' = 0
    /\ breakers' = IF rm_config.circuit_breaker_enabled
                   THEN get_breaker(breakers, name,
                                    CircuitBreakerConfig(
                                        rm_config.circuit_breaker_failure_threshold,
                                        DefaultSuccessThreshold,
                                        rm_config.circuit_breaker_timeout),
                                    now)
                   ELSE breakers
    /\ IF rm_config.max_retry_attempts >= 1
       THEN /\ attempt_num' = 1
            /\ pc' = "attempt"
            /\ result' = NoResult
       ELSE /\ attempt_num' = 0
            /\ pc' = "done"
            /\ result' = RecoveryResult(FALSE, "None", NoError, <<>>, "retry_exhausted")
    /\ UNCHANGED <<handlerVars, mgrVars, now, cbVars, rm_config, ticks>>

\* execute_with_recovery called by the caller of SpecRM
ExecuteWithRecovery(name, scr) ==
    /\ pc = "idle"
    /\ runs < MaxRuns
    /\ BeginRecovery(name, scr)
    /\ UNCHANGED fbVars

\* the admission section of circuit_breaker.call for this attempt
Admission == call_admission(breakers[operation_name], now)
Blocked ==
    rm_config.circuit_breaker_enabled /\ Admission.raised.type = "CircuitBreakerError"

\* lines 118-121 and 148-167: the breaker rejects the attempt
AttemptBlocked ==
    /\ pc = "attempt"
    /\ Blocked
    /\ breakers' = [breakers EXCEPT ![operation_name] = Admission.breaker]
    /\ LET attempt == RecoveryAttempt(attempt_num, Admission.raised, FALSE, 0,
                                      "circuit_breaker_open")
       IN /\ attempts' = Append(attempts, attempt)
          /\ result' = RecoveryResult(FALSE, "None", Admission.raised, attempts',
                                      "circuit_breaker_blocked")
    /\ pc' = "done"
    /\ UNCHANGED <<handlerVars, mgrVars, fbVars, now, cbVars, rm_config, operation_name, script, attempt_num,
                   last_error, delay, invoked, sleeps, runs, ticks>>

\* the successful attempt recorded without its success flag
SuccessfulAttempt_unmarked ==
    RecoveryAttempt(attempt_num, NoError, FALSE,
                    IF attempt_num = 1 THEN 0
                    ELSE attempts[Len(attempts)].delay_before_attempt,
                    "None")

\* lines 126-131: the RecoveryAttempt of the attempt that succeeded
SuccessfulAttempt ==
    RecoveryAttempt(attempt_num, NoError, TRUE,
                    IF attempt_num = 1 THEN 0
                    ELSE attempts[Len(attempts)].delay_before_attempt,
                    "None")

\* the two success strategies exchanged
SuccessStrategy_swapped ==
    IF attempt_num > 1 THEN "direct_success" ELSE "retry_success"

\* line 145: recovery_strategy of a successful result
SuccessStrategy ==
    IF attempt_num > 1 THEN "retry_success" ELSE "direct_success"

\* lines 118-146: operation_func is invoked and returns
AttemptSuccess ==
    /\ pc = "attempt"
    /\ ~Blocked
    /\ script[invoked + 1] = NoError
    /\ invoked' = invoked + 1
    /\ breakers' = IF rm_config.circuit_breaker_enabled
                   THEN [breakers EXCEPT ![operation_name] =
                            _record_success(Admission.breaker, now)]
                   ELSE breakers
    /\ attempts' = Append(attempts, SuccessfulAttempt)
    /\ result' = RecoveryResult(TRUE, "value", NoError, attempts', SuccessStrategy)
    /\ pc' = "done"
    /\ UNCHANGED <<handlerVars, mgrVars, fbVars, now, cbVars, rm_config, operation_name, script, attempt_num,
                   last_error, delay, sleeps, runs, ticks>>

\* the loop stopping one attempt before the bound
StopsRetrying_one_early(classification) ==
    \/ ~classification.is_retryable
    \/ attempt_num + 1 >= rm_config.max_retry_attempts

\* the loop retrying whatever the classification
StopsRetrying_any_class(classification) ==
    attempt_num >= rm_config.max_retry_attempts

\* the loop going to sleep after the last allowed attempt too
StopsRetrying_after_bound(classification) ==
    \/ ~classification.is_retryable
    \/ attempt_num > rm_config.max_retry_attempts

\* the loop stopping at the classification's max_retry_attempts as well
StopsRetrying_classification_bound(classification) ==
    \/ ~classification.is_retryable
    \/ attempt_num >= Min(rm_config.max_retry_attempts, classification.max_retry_attempts)

\* lines 190-198: the two breaks out of the retry loop
StopsRetrying(classification) ==
    \/ ~classification.is_retryable
    \/ attempt_num >= rm_config.max_retry_attempts

\* lines 118-123 and 169-213, then 215-227 after a break: operation_func is
\* invoked and raises; the error is classified; the loop stops or goes to
\* sleep
AttemptFailure ==
    /\ pc = "attempt"
    /\ ~Blocked
    /\ script[invoked + 1] # NoError
    /\ invoked' = invoked + 1
    /\ breakers' = IF rm_config.circuit_breaker_enabled
                   THEN [breakers EXCEPT ![operation_name] =
                            _record_failure(Admission.breaker, now)]
                   ELSE breakers
    /\ LET e == script[invoked + 1]
           classification == classify_error(e)
           attempt == RecoveryAttempt(attempt_num, e, FALSE, 0,
                                      classification.recovery_action)
       IN /\ last_error' = e
          /\ IF StopsRetrying(classification)
             THEN /\ attempts' = Append(attempts, attempt)
                  /\ result' = RecoveryResult(FALSE, "None", e, attempts',
                                              "retry_exhausted")
                  /\ pc' = "done"
                  /\ delay' = 0
             ELSE /\ \E d \in _calculate_retry_delay(rm_config, attempt_num, classification,
                                                     rm_config.base_retry_delay,
                                                     rm_config.max_retry_delay) :
                        /\ delay' = d
                        /\ attempts' = Append(attempts,
                                              [attempt EXCEPT !.delay_before_attempt = d])
                  /\ result' = result
                  /\ pc' = "sleeping"
    /\ UNCHANGED <<handlerVars, mgrVars, fbVars, now, cbVars, rm_config, operation_name, script, attempt_num,
                   sleeps, runs, ticks>>

\* line 213: time.sleep(delay) returns and the loop goes to the next attempt
Sleep ==
    /\ pc = "sleeping"
    /\ now' = now + delay
    /\ sleeps' = sleeps + 1
    /\ attempt_num' = attempt_num + 1
    /\ pc' = "attempt"
    /\ UNCHANGED <<handlerVars, mgrVars, fbVars, cbVars, rm_config, breakers, operation_name, script, attempts,
                   last_error, delay, result, invoked, runs, ticks>>

\* execute_with_recovery has returned `result`; the caller is ready for its
\* next call
Return ==
    /\ pc = "done"
    /\ pc' = "idle"
    /\ operation_name' = ""
    /\ script' = <<>>
    /\ attempt_num' = 0
    /\ attempts' = <<>>
    /\ last_error' = NoError
    /\ delay' = 0
    /\ result' = NoResult
    /\ invoked' = 0
    /\ sleeps' = 0
    /\ UNCHANGED <<handlerVars, mgrVars, fbVars, now, cbVars, rm_config, breakers, runs, ticks>>

\* time passes between two calls: a pause as long as the breaker timeout
Pause ==
    /\ pc = "idle"
    /\ ticks < MaxTicks
    /\ ticks' = ticks + 1
    /\ now' = now + rm_config.circuit_breaker_timeout
    /\ UNCHANGED <<handlerVars, mgrVars, fbVars, cbVars, rm_config, breakers, pc, operation_name, script, attempt_num,
                   attempts, last_error, delay, result, invoked, sleeps, runs>>

NextRM ==
    \/ \E name \in OperationNames :
          \E scr \in Scripts(rm_config.max_retry_attempts) :
             ExecuteWithRecovery(name, scr)
    \/ AttemptBlocked
    \/ AttemptSuccess
    \/ AttemptFailure
    \/ Sleep
    \/ Return
    \/ Pause

SpecRM == InitRM /\ [][NextRM]_vars

\* ============================================================== SpecMT
\* The caller threads go through CircuitBreakerManager.call_with_breaker for
\* one breaker name, each passing a config of its own.  The two locks are
\* explicit.  A step that takes a lock also runs the block the lock protects
\* (nothing else can touch what it protects meanwhile); leaving the block,
\* which releases the lock, is a step of its own.
MTName == "shared_op"

\* the caller threads of SpecMT
MTThreads == {"t1", "t2", "t3"}

\* the configs the callers pass: failure thresholds 1 and 2
MTConfigs == {CircuitBreakerConfig(k, 1, 1) : k \in {1, 2}}

\* where a thread is in call_with_breaker
MTPc == {"idle",              \* not in call_with_breaker
         "in_get_breaker",    \* get_breaker, inside `with self._lock`
         "have_breaker",      \* get_breaker returned, breaker.call not begun
         "admitted_locked",   \* call, inside `with self._lock`, admitted
         "rejected_locked",   \* call, inside `with self._lock`, raising
         "in_func",           \* call, inside func
         "recorded_success",  \* _record_success, inside `with self._lock`
         "recorded_failure",  \* _record_failure, inside `with self._lock`
         "sleeping"}          \* call raised func's error; the caller sleeps
                              \* before it tries again (recovery_manager 213)

MTIdle == [pc |-> "idle", config |-> "None", instance |-> 0]

\* a lock left held at the end of its `with` block
ReleaseLock_held(l, which) == l

\* the end of a `with self._lock` block
ReleaseLock(l, which) == [l EXCEPT ![which] = "free"]

InitMT ==
    /\ now = 0
    /\ circuit_breaker = CircuitBreaker("test_circuit", CircuitBreakerConfig(1, 1, 1), 0)
    /\ threads = [t \in Threads |-> "idle"]
    /\ failure_run = 0
    /\ success_run = 0
    /\ controls = 0
    /\ RMUnused
    /\ FBUnused
    /\ HandlersUnused
    /\ locks = [manager |-> "free", breaker |-> "free"]
    /\ mt = [t \in MTThreads |-> MTIdle]
    /\ created = [count |-> 0, first_config |-> "None"]
    /\ calls = 0
    /\ health = NoHealth

\* threads that have entered call_with_breaker and not yet begun breaker.call
MTPending == {t \in MTThreads : mt[t].pc \in {"in_get_breaker", "have_breaker"}}

\* call_with_breaker, get_breaker lines 288-292: the manager lock is taken,
\* the breaker is looked up or constructed
GetBreakerEnter(t, config) ==
    /\ mt[t].pc = "idle"
    /\ calls + Cardinality(MTPending) < MaxCalls
    /\ locks.manager = "free"
    /\ locks' = [locks EXCEPT !.manager = t]
    /\ breakers' = get_breaker(breakers, MTName, config, now)
    /\ LET constructed == \/ MTName \notin DOMAIN breakers
                          \/ breakers'[MTName] # breakers[MTName]
       IN created' = [count |-> created.count + (IF constructed THEN 1 ELSE 0),
                      first_config |-> IF created.count = 0 THEN config
                                       ELSE created.first_config]
    /\ mt' = [mt EXCEPT ![t] = [pc |-> "in_get_breaker", config |-> config,
                                instance |-> created'.count]]
    /\ UNCHANGED <<handlerVars, now, cbVars, rmOther, fbVars, calls, health>>

\* get_breaker line 294: the breaker is returned, the manager lock released
GetBreakerExit(t) ==
    /\ mt[t].pc = "in_get_breaker"
    /\ locks' = ReleaseLock(locks, "manager")
    /\ mt' = [mt EXCEPT ![t].pc = "have_breaker"]
    /\ UNCHANGED <<handlerVars, now, cbVars, rmOther, fbVars, breakers, created, calls, health>>

\* call lines 106-122: the breaker lock is taken, the request is counted and
\* admitted or rejected
CallEnter(t) ==
    /\ mt[t].pc = "have_breaker"
    /\ locks.breaker = "free"
    /\ locks' = [locks EXCEPT !.breaker = t]
    /\ calls' = calls + 1
    /\ LET r == call_admission(breakers[MTName], now)
       IN /\ breakers' = [breakers EXCEPT ![MTName] = r.breaker]
          /\ mt' = [mt EXCEPT ![t].pc = IF r.raised.type = "CircuitBreakerError"
                                        THEN "rejected_locked" ELSE "admitted_locked"]
    /\ UNCHANGED <<handlerVars, now, cbVars, rmOther, fbVars, created, health>>

\* call: the `with` block of line 106 is left, by falling through to func
\* (line 126) or by the raise of line 118
CallLeaveAdmission(t) ==
    /\ mt[t].pc \in {"admitted_locked", "rejected_locked"}
    /\ locks' = ReleaseLock(locks, "breaker")
    /\ mt' = [mt EXCEPT ![t] = IF mt[t].pc = "admitted_locked"
                               THEN [@ EXCEPT !.pc = "in_func"]
                               ELSE MTIdle]
    /\ UNCHANGED <<handlerVars, now, cbVars, rmOther, fbVars, breakers, created, calls, health>>

\* call lines 126-127: func returned; _record_success takes the lock
RecordSuccessEnter(t) ==
    /\ mt[t].pc = "in_func"
    /\ locks.breaker = "free"
    /\ locks' = [locks EXCEPT !.breaker = t]
    /\ breakers' = [breakers EXCEPT ![MTName] = _record_success(@, now)]
    /\ mt' = [mt EXCEPT ![t].pc = "recorded_success"]
    /\ UNCHANGED <<handlerVars, now, cbVars, rmOther, fbVars, created, calls, health>>

\* call lines 126, 130-131: func raised; _record_failure takes the lock
RecordFailureEnter(t) ==
    /\ mt[t].pc = "in_func"
    /\ locks.breaker = "free"
    /\ locks' = [locks EXCEPT !.breaker = t]
    /\ breakers' = [breakers EXCEPT ![MTName] = _record_failure(@, now)]
    /\ mt' = [mt EXCEPT ![t].pc = "recorded_failure"]
    /\ UNCHANGED <<handlerVars, now, cbVars, rmOther, fbVars, created, calls, health>>

\* _record_success / _record_failure leave their `with` block; call returns
\* (line 128) or re-raises (line 132), and the caller of a failed call sleeps
RecordExit(t) ==
    /\ mt[t].pc \in {"recorded_success", "recorded_failure"}
    /\ locks' = ReleaseLock(locks, "breaker")
    /\ mt' = [mt EXCEPT ![t] = IF mt[t].pc = "recorded_success"
                               THEN MTIdle
                               ELSE [MTIdle EXCEPT !.pc = "sleeping"]]
    /\ UNCHANGED <<handlerVars, now, cbVars, rmOther, fbVars, breakers, created, calls, health>>

\* the sleep between two attempts is over
Wake(t) ==
    /\ mt[t].pc = "sleeping"
    /\ mt' = [mt EXCEPT ![t] = MTIdle]
    /\ UNCHANGED <<handlerVars, now, cbVars, rmOther, fbVars, breakers, locks, created, calls, health>>

NextMT ==
    \/ \E t \in MTThreads : \E config \in MTConfigs : GetBreakerEnter(t, config)
    \/ \E t \in MTThreads : GetBreakerExit(t)
    \/ \E t \in MTThreads : CallEnter(t)
    \/ \E t \in MTThreads : CallLeaveAdmission(t)
    \/ \E t \in MTThreads : RecordSuccessEnter(t)
    \/ \E t \in MTThreads : RecordFailureEnter(t)
    \/ \E t \in MTThreads : RecordExit(t)
    \/ \E t \in MTThreads : Wake(t)

SpecMT == InitMT /\ [][NextMT]_vars

\* ============================================================== SpecFB
\* One RecoveryManager whose execute_with_fallback is called again and again
\* by one caller.  The two sub-calls are the execute_with_recovery of SpecRM,
\* step by step.
FBOperationNames == {"update_contact"}

\* the second sub-call under the name of the first
FallbackName_shared(name) == name \o "_primary"

\* lines 290 and 305: the names the two sub-calls run under
PrimaryName(name) == name \o "_primary"
FallbackName(name) == name \o "_fallback"

\* primary_operation and fallback_operation: what their invocations do
FBScripts(n) ==
    {scr \in Scripts(n) : \A i \in 1..n : scr[i] # ClientError("ServiceUnavailableException")}

\* RecoveryConfig of tests/test_error_handling.py (max_retry_attempts 2, base
\* 0.1 s, max 1.0 s), without jitter, with one or two attempts and with the
\* breaker enabled (failure threshold 2, timeout 0.25 s) or disabled
FBConfigs ==
    {RecoveryConfig(n, 100, 1000, DefaultJitterFactor, cb, 2, 250, TRUE, FALSE) :
        n \in 1..2, cb \in BOOLEAN}

\* the registry's breaker for a name, NoBreaker when there is none
NoBreaker == [name |-> "None"]
BreakerOf(name) == IF name \in DOMAIN breakers THEN breakers[name] ELSE NoBreaker

FBIdle ==
    [phase |-> "idle", calls |-> 0, operation_name |-> "", fallback_operation |-> <<>>,
     primary_result |-> NoResult, fallback_result |-> NoResult, fallback_started |-> FALSE,
     fallback_breaker_before |-> NoBreaker, result |-> NoResult]

InitFB ==
    /\ now = 0
    /\ circuit_breaker = CircuitBreaker("test_circuit", CircuitBreakerConfig(1, 1, 1), 0)
    /\ threads = [t \in Threads |-> "idle"]
    /\ failure_run = 0
    /\ success_run = 0
    /\ controls = 0
    /\ rm_config \in FBConfigs
    /\ breakers = <<>>
    /\ pc = "idle"
    /\ operation_name = ""
    /\ script = <<>>
    /\ attempt_num = 0
    /\ attempts = <<>>
    /\ last_error = NoError
    /\ delay = 0
    /\ result = NoResult
    /\ invoked = 0
    /\ sleeps = 0
    /\ runs = 0
    /\ ticks = 0
    /\ MgrUnused
    /\ fb = FBIdle
    /\ HandlersUnused

\* execute_with_fallback, lines 286-294: the primary sub-call begins
ExecuteWithFallback(name, primary_operation, fallback_operation) ==
    /\ fb.phase \in {"idle", "returned"}
    /\ fb.calls < MaxFallbackCalls
    /\ BeginRecovery(PrimaryName(name), primary_operation)
    /\ fb' = [phase |-> "primary", calls |-> fb.calls + 1, operation_name |-> name,
              fallback_operation |-> fallback_operation,
              primary_result |-> NoResult, fallback_result |-> NoResult,
              fallback_started |-> FALSE,
              fallback_breaker_before |-> BreakerOf(FallbackName(name)),
              result |-> NoResult]

\* lines 296-309: the primary sub-call has returned; its result is returned
\* as primary_success, or the fallback sub-call begins
PrimaryReturned ==
    /\ fb.phase = "primary"
    /\ pc = "done"
    /\ IF result.success
       THEN /\ fb' = [fb EXCEPT !.phase = "returned",
                                !.primary_result = result,
                                !.result = [result EXCEPT
                                               !.recovery_strategy = "primary_success"]]
            /\ UNCHANGED <<handlerVars, now, cbVars, rmVars, mgrVars>>
       ELSE /\ BeginRecovery(FallbackName(fb.operation_name), fb.fallback_operation)
            /\ fb' = [fb EXCEPT !.phase = "fallback",
                                !.primary_result = result,
                                !.fallback_started = TRUE]

\* lines 311-318: the fallback sub-call has returned; its result is returned
\* as fallback_success or both_failed
FallbackReturned ==
    /\ fb.phase = "fallback"
    /\ pc = "done"
    /\ fb' = [fb EXCEPT !.phase = "returned",
                        !.fallback_result = result,
                        !.result = [result EXCEPT !.recovery_strategy =
                                       IF result.success THEN "fallback_success"
                                       ELSE "both_failed"]]
    /\ UNCHANGED <<handlerVars, now, cbVars, rmVars, mgrVars>>

NextFB ==
    \/ \E name \in FBOperationNames :
          \E p, f \in FBScripts(rm_config.max_retry_attempts) :
             ExecuteWithFallback(name, p, f)
    \/ PrimaryReturned
    \/ FallbackReturned
    \/ AttemptBlocked
    \/ AttemptSuccess
    \/ AttemptFailure
    \/ Sleep

SpecFB == InitFB /\ [][NextFB]_vars

\* ============================================================ SpecHealth
\* One CircuitBreakerManager: breakers are registered, forced open or closed,
\* time passes, and get_health_status is called.
HealthNames == {"healthy_op", "op1", "op2"}

HealthConfigs == {CircuitBreakerConfig(1, 1, to) : to \in 1..MaxTimeout}

\* what SpecHealth leaves alone
healthOther == <<circuit_breaker, threads, failure_run, success_run, rmOther,
                 locks, mt, created, calls, fbVars>>

InitHealth ==
    /\ now = 0
    /\ circuit_breaker = CircuitBreaker("test_circuit", CircuitBreakerConfig(1, 1, 1), 0)
    /\ threads = [t \in Threads |-> "idle"]
    /\ failure_run = 0
    /\ success_run = 0
    /\ controls = 0
    /\ RMUnused
    /\ MgrUnused
    /\ FBUnused
    /\ HandlersUnused

\* get_breaker for a name the registry does not hold yet
RegisterBreaker(name, config) ==
    /\ name \notin DOMAIN breakers
    /\ breakers' = get_breaker(breakers, name, config, now)
    /\ UNCHANGED <<handlerVars, now, controls, health, healthOther>>

\* get_breaker(name).force_open()
HealthForceOpen(name) ==
    /\ name \in DOMAIN breakers
    /\ controls < MaxHealthControls
    /\ controls' = controls + 1
    /\ breakers' = [breakers EXCEPT ![name] = force_open(@, now)]
    /\ UNCHANGED <<handlerVars, now, health, healthOther>>

\* get_breaker(name).force_closed()
HealthForceClosed(name) ==
    /\ name \in DOMAIN breakers
    /\ controls < MaxHealthControls
    /\ controls' = controls + 1
    /\ breakers' = [breakers EXCEPT ![name] = force_closed(@, now)]
    /\ UNCHANGED <<handlerVars, now, health, healthOther>>

\* the clock advances
HealthTick ==
    /\ now < MaxTime
    /\ now' = now + 1
    /\ UNCHANGED <<handlerVars, breakers, controls, health, healthOther>>

\* get_health_status: get_all_stats calls get_state on every breaker, which
\* moves an OPEN breaker whose timeout has elapsed to HALF_OPEN
GetHealthStatus ==
    /\ health' = get_health_status(breakers, now)
    /\ breakers' = [n \in DOMAIN breakers |-> get_state(breakers[n], now).breaker]
    /\ UNCHANGED <<handlerVars, now, controls, healthOther>>

NextHealth ==
    \/ \E name \in HealthNames, config \in HealthConfigs : RegisterBreaker(name, config)
    \/ \E name \in HealthNames : HealthForceOpen(name)
    \/ \E name \in HealthNames : HealthForceClosed(name)
    \/ HealthTick
    \/ GetHealthStatus

SpecHealth == InitHealth /\ [][NextHealth]_vars

\* ============================================================= SpecDelay
\* One execute_with_recovery whose operation raises the same retryable error
\* at every invocation, under configurations in which the computed delay
\* reaches max_retry_delay within the attempts made.
DelayErrors ==
    {ClientError("ThrottlingException"), ClientError("ServiceUnavailableException"),
     ClientError("RequestTimeout")}

DelayScripts(n) == {[i \in 1..n |-> e] : e \in DelayErrors}

\* RecoveryConfig with its default delays (2 s, 60 s), with the default base
\* and max_retry_delay = 5 s, and with the delays of the tests (0.1 s, 1 s);
\* breaker off, the two backoff modes, jitter on and off
DelayConfigs ==
    {RecoveryConfig(MaxDelayAttempts, d[1], d[2], DefaultJitterFactor, FALSE,
                    ClientFailureThreshold, ClientBreakerTimeout, exp, jit) :
        d \in {<<2000, 60000>>, <<2000, 5000>>, <<100, 1000>>},
        exp \in BOOLEAN, jit \in BOOLEAN}

InitDelay ==
    /\ now = 0
    /\ circuit_breaker = CircuitBreaker("test_circuit", CircuitBreakerConfig(1, 1, 1), 0)
    /\ threads = [t \in Threads |-> "idle"]
    /\ failure_run = 0
    /\ success_run = 0
    /\ controls = 0
    /\ rm_config \in DelayConfigs
    /\ breakers = <<>>
    /\ pc = "idle"
    /\ operation_name = ""
    /\ script = <<>>
    /\ attempt_num = 0
    /\ attempts = <<>>
    /\ last_error = NoError
    /\ delay = 0
    /\ result = NoResult
    /\ invoked = 0
    /\ sleeps = 0
    /\ runs = 0
    /\ ticks = 0
    /\ MgrUnused
    /\ FBUnused
    /\ HandlersUnused

NextDelay ==
    \/ \E name \in OperationNames :
          \E scr \in DelayScripts(rm_config.max_retry_attempts) :
             ExecuteWithRecovery(name, scr)
    \/ AttemptFailure
    \/ Sleep

SpecDelay == InitDelay /\ [][NextDelay]_vars

\* ====================================================== SpecNonRetryable
\* One RecoveryManager with the breaker enabled; every execute_with_recovery
\* is for the same operation name and its function raises a non-retryable
\* error at its first invocation.
NonRetryableErrors ==
    {ClientError("AccessDeniedException"), ClientError("UnauthorizedOperation"),
     ClientError("ValidationException"), ClientError("ResourceNotFoundException"),
     ClientError("AWSOrganizationsNotInUseException"), OtherError("ValueError")}

NonRetryableScripts(n) == {[i \in 1..n |-> e] : e \in NonRetryableErrors}

\* the RecoveryConfig of the tests with the failure thresholds that the
\* calls of one behaviour can reach and pass
NonRetryableConfigs ==
    {RecoveryConfig(n, 100, 1000, DefaultJitterFactor, TRUE, k, 250, TRUE, FALSE) :
        n \in 1..MaxAttempts, k \in 1..(MaxRuns - 1)}

InitNonRetryable ==
    /\ now = 0
    /\ circuit_breaker = CircuitBreaker("test_circuit", CircuitBreakerConfig(1, 1, 1), 0)
    /\ threads = [t \in Threads |-> "idle"]
    /\ failure_run = 0
    /\ success_run = 0
    /\ controls = 0
    /\ rm_config \in NonRetryableConfigs
    /\ breakers = <<>>
    /\ pc = "idle"
    /\ operation_name = ""
    /\ script = <<>>
    /\ attempt_num = 0
    /\ attempts = <<>>
    /\ last_error = NoError
    /\ delay = 0
    /\ result = NoResult
    /\ invoked = 0
    /\ sleeps = 0
    /\ runs = 0
    /\ ticks = 0
    /\ MgrUnused
    /\ FBUnused
    /\ HandlersUnused

NextNonRetryable ==
    \/ \E name \in OperationNames :
          \E scr \in NonRetryableScripts(rm_config.max_retry_attempts) :
             ExecuteWithRecovery(name, scr)
    \/ AttemptBlocked
    \/ AttemptFailure
    \/ Return
    \/ Pause

SpecNonRetryable == InitNonRetryable /\ [][NextNonRetryable]_vars

\* =========================================================== SpecClassify
\* One ErrorClassifier called directly, and one RecoveryManager (breaker off)
\* whose operations raise errors that the classifier maps or fails on.
CBUnused ==
    /\ now = 0
    /\ circuit_breaker = CircuitBreaker("test_circuit", CircuitBreakerConfig(1, 1, 1), 0)
    /\ threads = [t \in Threads |-> "idle"]
    /\ failure_run = 0
    /\ success_run = 0
    /\ controls = 0

\* the codes of AWS_ERROR_MAPPINGS, codes outside it (one per inferred
\* category, and 'Unknown', the code of a response without one), and the
\* codes that are not strings
ClassifyCodes ==
    DOMAIN AWS_ERROR_MAPPINGS
        \cup {"RequestLimitExceeded", "UnauthorizedAccess", "InvalidInputException", "Unknown"}
        \cup NonStringCodes

ClassifyErrors ==
    {ClientError(c) : c \in ClassifyCodes}
        \cup {OtherError(t) : t \in {"BotoCoreError", "ConnectionError", "TimeoutError",
                                      "ValueError", "RuntimeError"}}

\* the errors raised by the operations given to the recovery manager
ClassifyScripts(n) ==
    {[i \in 1..n |-> e] : e \in {ClientError(c) : c \in NonStringCodes \cup {"ThrottlingException"}}}

ClassifyConfig ==
    RecoveryConfig(DefaultMaxAttempts, 100, 1000, DefaultJitterFactor, FALSE,
                   ClientFailureThreshold, ClientBreakerTimeout, TRUE, FALSE)

NoCall == [error |-> NoError]

\* AWS_ERROR_MAPPINGS after a lookup: classification reads the table and
\* hands out its entries, and neither it nor the recovery manager writes to
\* the table or to an entry
_mappings_after_lookup_downgrading(mappings, error) ==
    IF error.type = "ClientError" /\ error.code \in DOMAIN mappings
    THEN [mappings EXCEPT ![error.code].is_retryable = FALSE]
    ELSE mappings

_mappings_after_lookup(mappings, error) == mappings

InitClassify ==
    /\ CBUnused
    /\ rm_config = ClassifyConfig
    /\ breakers = <<>>
    /\ pc = "idle"
    /\ operation_name = ""
    /\ script = <<>>
    /\ attempt_num = 0
    /\ attempts = <<>>
    /\ last_error = NoError
    /\ delay = 0
    /\ result = NoResult
    /\ invoked = 0
    /\ sleeps = 0
    /\ runs = 0
    /\ ticks = 0
    /\ MgrUnused
    /\ FBUnused
    /\ classifier = [phase |-> "classify", mappings |-> AWS_ERROR_MAPPINGS,
                     first |-> NoCall, last |-> NoCall, repeated |-> FALSE]
    /\ sync_op = NoSyncOperation
    /\ processor = NoProcessor

\* classifier.classify_error(error) called by some caller of the classifier
ClassifyError(error) ==
    /\ LET call == [error |-> error,
                    classification |-> classify_error_with(classifier.mappings, error)]
       IN classifier' = [classifier EXCEPT
                            !.mappings = _mappings_after_lookup(@, error),
                            !.first = IF @ = NoCall THEN call ELSE @,
                            !.last = call,
                            !.repeated = classifier.first # NoCall]
    /\ UNCHANGED <<now, cbVars, rmVars, mgrVars, fbVars, sync_op, processor>>

NextClassify ==
    \/ \E error \in ClassifyErrors : ClassifyError(error)
    \/ \E name \in OperationNames :
          \E scr \in ClassifyScripts(rm_config.max_retry_attempts) :
             ExecuteWithRecovery(name, scr)
    \/ AttemptFailure
    \/ Sleep
    \/ Return

SpecClassify == InitClassify /\ [][NextClassify]_vars

\* ============================================================= SpecNotify
\* should_notify called for classifications of every severity and for
\* occurrence counts around its threshold.
MaxErrorCount == 4     \* SpecNotify: error_count ranges over 0..MaxErrorCount

\* what classify_error can return, and the classifications that the tests
\* construct themselves (among them one of low severity, which no mapping has)
NotifyClassifications ==
    {classify_error(e) : e \in ClassifyErrors}
        \cup {ErrorClassification("transient", "critical", TRUE, TRUE, 10, 0, "None"),
              ErrorClassification("permission", "high", FALSE, FALSE, 10, 0, "None"),
              ErrorClassification("rate_limit", "medium", TRUE, FALSE, 10, 0, "None"),
              ErrorClassification("unknown", "low", FALSE, FALSE, 10, 0, "None")}

NoNotifyCall ==
    [classification |-> _get_default_classification, error_count |-> 0,
     notify |-> FALSE, called |-> FALSE]

InitNotify ==
    /\ CBUnused
    /\ RMUnused
    /\ MgrUnused
    /\ FBUnused
    /\ classifier = [phase |-> "notify", previous |-> NoNotifyCall, last |-> NoNotifyCall]
    /\ sync_op = NoSyncOperation
    /\ processor = NoProcessor

\* classifier.should_notify(classification, error_count)
ShouldNotify(classification, error_count) ==
    /\ classifier' = [classifier EXCEPT
                         !.previous = classifier.last,
                         !.last = [classification |-> classification,
                                   error_count |-> error_count,
                                   notify |-> should_notify(classification, error_count),
                                   called |-> TRUE]]
    /\ UNCHANGED <<now, cbVars, rmVars, mgrVars, fbVars, sync_op, processor>>

NextNotify ==
    \E classification \in NotifyClassifications, error_count \in 0..MaxErrorCount :
        ShouldNotify(classification, error_count)

SpecNotify == InitNotify /\ [][NextNotify]_vars

\* ========================================================== SpecProcessor
\* One AccountProcessorHandler (default retry settings) whose
\* process_account_update is called with some account, contact data that
\* parses or not, a state tracker that works or not, and remote calls whose
\* outcomes per attempt are scripted. Delays are in seconds.
ProcessorMaxRetryAttempts == 3
ProcessorBaseRetryDelay == 2
ProcessorMaxRetryDelay == 60

\* AccountSyncResult(...): the dataclass and its __post_init__ validation
AccountSyncResult(account_id, status, error_message, retry_count) ==
    IF account_id = "" THEN Raised("ValueError: account_id cannot be empty")
    ELSE IF status \notin {"success", "failed", "skipped"}
    THEN Raised("ValueError: Invalid status")
    ELSE IF retry_count < 0 THEN Raised("ValueError: retry_count cannot be negative")
    ELSE [account_id |-> account_id, status |-> status,
          error_message |-> error_message, retry_count |-> retry_count]

is_retryable_error(error_code) ==
    IF error_code \in {"AccessDenied", "UnauthorizedOperation", "InvalidParameterValue",
                       "ValidationException", "ResourceNotFoundException",
                       "AccountNotFound"}
    THEN FALSE
    ELSE TRUE

\* one attempt's remote calls: whether the account's current contact equals
\* the new one (is_update_needed), and what the put call raises
RemoteCalls ==
    {[current_equal |-> TRUE, put |-> NoError]}
        \cup {[current_equal |-> FALSE, put |-> e] :
                 e \in {NoError, ClientError("ThrottlingException"),
                        ClientError("AccessDenied"), ClientError("SomeNewException"),
                        OtherError("ConnectionError")}}

RECURSIVE _process_with_retry_from(_, _, _, _)
\* the for loop of process_with_retry from iteration `attempt` on, with the
\* result object as it is at that point and the seconds slept so far
_process_with_retry_from(api, attempt, r, slept) ==
    IF attempt >= ProcessorMaxRetryAttempts
    THEN [success |-> FALSE, sync_result |-> r, slept |-> slept]
    ELSE LET r1 == [r EXCEPT !.retry_count = attempt]
             remote == api[attempt + 1]
             r2 == IF remote.put.type = "ClientError"
                   THEN [r1 EXCEPT !.error_message =
                            IF is_retryable_error(remote.put.code)
                            THEN "API error"
                            ELSE "Permission or configuration error"]
                   ELSE [r1 EXCEPT !.error_message = "Unexpected error"]
             backoff == IF ProcessorBaseRetryDelay * Pow(2, attempt) < ProcessorMaxRetryDelay
                        THEN ProcessorBaseRetryDelay * Pow(2, attempt)
                        ELSE ProcessorMaxRetryDelay
         IN IF remote.current_equal \/ remote.put = NoError
            THEN [success |-> TRUE, sync_result |-> r1, slept |-> slept]
            ELSE IF remote.put.type = "ClientError" /\ ~is_retryable_error(remote.put.code)
            THEN [success |-> FALSE, sync_result |-> r2, slept |-> slept]
            ELSE _process_with_retry_from(api, attempt + 1, r2,
                    IF attempt < ProcessorMaxRetryAttempts - 1
                    THEN slept + backoff
                    ELSE slept)

process_with_retry(api, sync_result) == _process_with_retry_from(api, 0, sync_result, 0)

\* update_account_result: what the state tracker holds for the account
\* afterwards; a failure of the tracker is logged and swallowed
update_account_result(tracked, tracker_works, sync_result) ==
    IF tracker_works THEN Append(tracked, sync_result.status) ELSE tracked

\* process_account_update: the returned dict, or the exception that leaves it
process_account_update(account_id, contact_data_parses, api, tracker_works) ==
    LET r == AccountSyncResult(account_id, "pending", "None", 0)
    IN IF IsRaised(r)
       THEN [raised |-> r.raised, tracked |-> <<>>, slept |-> 0]
       ELSE LET tracked1 == update_account_result(<<>>, tracker_works, r)
            IN IF ~contact_data_parses
               THEN [status |-> "failed", message |-> "Invalid contact data format",
                     retry_count |-> r.retry_count,
                     tracked |-> update_account_result(tracked1, tracker_works,
                                    [r EXCEPT !.status = "failed"]),
                     slept |-> 0]
               ELSE LET p == process_with_retry(api, r)
                        status == IF p.success THEN "success" ELSE "failed"
                    IN [status |-> status,
                        message |-> IF p.sync_result.error_message # "None"
                                    THEN p.sync_result.error_message
                                    ELSE IF p.success THEN "Contact update succeeded"
                                    ELSE "Contact update failed",
                        retry_count |-> p.sync_result.retry_count,
                        tracked |-> update_account_result(tracked1, tracker_works,
                                       [p.sync_result EXCEPT !.status = status]),
                        slept |-> p.slept]

ProcessorIdle == [phase |-> "idle"]

InitProcessor ==
    /\ CBUnused
    /\ RMUnused
    /\ MgrUnused
    /\ FBUnused
    /\ classifier = NoClassifier
    /\ sync_op = NoSyncOperation
    /\ processor = ProcessorIdle

\* handler.process_account_update(sync_id, account_id, contact_type, contact_data)
ProcessAccountUpdate(account_id, contact_data_parses, api, tracker_works) ==
    /\ processor.phase = "idle"
    /\ processor' = [phase |-> "returned",
                     account_id |-> account_id,
                     contact_data_parses |-> contact_data_parses,
                     api |-> api,
                     outcome |-> process_account_update(account_id, contact_data_parses,
                                                        api, tracker_works)]
    /\ UNCHANGED <<now, cbVars, rmVars, mgrVars, fbVars, classifier, sync_op>>

\* the caller goes on to its next account
ProcessNext ==
    /\ processor.phase = "returned"
    /\ processor' = ProcessorIdle
    /\ UNCHANGED <<now, cbVars, rmVars, mgrVars, fbVars, classifier, sync_op>>

NextProcessor ==
    \/ \E account_id \in {"111111111111", "222222222222"}, contact_data_parses \in BOOLEAN,
          api \in [1..ProcessorMaxRetryAttempts -> RemoteCalls], tracker_works \in BOOLEAN :
          ProcessAccountUpdate(account_id, contact_data_parses, api, tracker_works)
    \/ ProcessNext

SpecProcessor == InitProcessor /\ [][NextProcessor]_vars

\* =============================================================== SpecSync
\* One ContactSyncHandler.initiate_account_synchronization over a sync
\* operation with up to three target accounts. The operation's results are
\* empty, as DynamoDBStateTracker.create_sync_operation returns them, or hold
\* a pending entry per target, as the test's operation does. Each invocation
\* of the account processor succeeds or raises; the state tracker works or not.
Accounts == {"111111111111", "222222222222", "333333333333"}

RECURSIVE Orderings(_)
\* the orderings of the set S, as sequences
Orderings(S) ==
    IF S = {} THEN {<<>>}
    ELSE UNION {{<<a>> \o p : p \in Orderings(S \ {a})} : a \in S}

\* SyncOperation.__post_init__ rejects an empty target list
TargetLists == UNION {Orderings(S) : S \in (SUBSET Accounts) \ {{}}}

SetOf(list) == {list[i] : i \in DOMAIN list}

\* update_sync_status inside try/except: the stored status, when the write
\* succeeds
update_sync_status(stored_status, tracker_works, status) ==
    IF tracker_works THEN status ELSE stored_status

\* the except branch of the loop, lines 333-342: results[account_id].status
\* = "failed"; the KeyError of a missing entry is swallowed
_mark_result_failed(results, account_id) ==
    IF account_id \in DOMAIN results
    THEN [results EXCEPT ![account_id] = "failed"]
    ELSE results

InitSync ==
    /\ CBUnused
    /\ RMUnused
    /\ MgrUnused
    /\ FBUnused
    /\ classifier = NoClassifier
    /\ sync_op = [phase |-> "created"]
    /\ processor = NoProcessor

\* lines 316-326: the call starts, status in_progress
InitiateAccountSynchronization(target_accounts, prefilled, invocation_fails, tracker_works) ==
    /\ sync_op.phase = "created"
    /\ sync_op' =
          [phase |-> "loop",
           target_accounts |-> target_accounts,
           results |-> [a \in (IF prefilled THEN SetOf(target_accounts) ELSE {}) |->
                           "pending"],
           results_before |-> [a \in (IF prefilled THEN SetOf(target_accounts) ELSE {}) |->
                                  "pending"],
           invocation_fails |-> invocation_fails,
           tracker_works |-> tracker_works,
           status |-> "in_progress",
           stored_status |-> update_sync_status("pending", tracker_works, "in_progress"),
           invoked |-> <<>>,
           successful_invocations |-> 0,
           failed_invocations |-> 0]
    /\ UNCHANGED <<now, cbVars, rmVars, mgrVars, fbVars, classifier, processor>>

\* lines 328-342: one iteration of the loop over target_accounts
InvokeAccountProcessor ==
    /\ sync_op.phase = "loop"
    /\ Len(sync_op.invoked) < Len(sync_op.target_accounts)
    /\ LET account_id == sync_op.target_accounts[Len(sync_op.invoked) + 1]
       IN sync_op' =
             IF account_id \in sync_op.invocation_fails
             THEN [sync_op EXCEPT
                      !.invoked = Append(@, account_id),
                      !.failed_invocations = @ + 1,
                      !.results = _mark_result_failed(@, account_id)]
             ELSE [sync_op EXCEPT
                      !.invoked = Append(@, account_id),
                      !.successful_invocations = @ + 1]
    /\ UNCHANGED <<now, cbVars, rmVars, mgrVars, fbVars, classifier, processor>>

\* lines 344-352: after the loop
FinishSynchronization ==
    /\ sync_op.phase = "loop"
    /\ Len(sync_op.invoked) = Len(sync_op.target_accounts)
    /\ sync_op' =
          IF sync_op.failed_invocations > 0 /\ sync_op.successful_invocations = 0
          THEN [sync_op EXCEPT
                   !.phase = "returned",
                   !.status = "failed",
                   !.stored_status = update_sync_status(@, sync_op.tracker_works, "failed")]
          ELSE [sync_op EXCEPT !.phase = "returned"]
    /\ UNCHANGED <<now, cbVars, rmVars, mgrVars, fbVars, classifier, processor>>

NextSync ==
    \/ \E target_accounts \in TargetLists, prefilled \in BOOLEAN, tracker_works \in BOOLEAN :
          \E invocation_fails \in SUBSET SetOf(target_accounts) :
             InitiateAccountSynchronization(target_accounts, prefilled,
                                            invocation_fails, tracker_works)
    \/ InvokeAccountProcessor
    \/ FinishSynchronization

SpecSync == InitSync /\ [][NextSync]_vars

\* ============================================================ SpecTracker
\* One sync operation's item in the state table, and one account-processor
\* invocation per target account (the handler invokes them asynchronously,
\* InvocationType 'Event', so they run concurrently). Each invocation calls
\* DynamoDBStateTracker.add_account_result once, for its own account; the
\* table's get_item and update_item are the atomic steps.
NoResults == [a \in {} |-> "None"]

\* current_results[result.account_id] = {...}, lines 213-220
_with_account_result(current_results, account_id, status) ==
    [a \in DOMAIN current_results \cup {account_id} |->
        IF a = account_id THEN status ELSE current_results[a]]

\* the results attribute after update_item, lines 222-230: SET results =
\* :results, with no condition on what the item holds by then
update_item(stored_results, new_results) == new_results

InitTracker ==
    /\ CBUnused
    /\ RMUnused
    /\ MgrUnused
    /\ FBUnused
    /\ classifier = NoClassifier
    /\ sync_op = [phase |-> "stored", results |-> NoResults]
    /\ processor = [a \in Accounts |->
                       [pc |-> "idle", status |-> "None", current_results |-> NoResults]]

\* lines 203-220: get_item, json.loads, and the new entry in the local copy
GetItem(account_id, status) ==
    /\ processor[account_id].pc = "idle"
    /\ processor' = [processor EXCEPT ![account_id] =
                        [pc |-> "read", status |-> status,
                         current_results |->
                            _with_account_result(sync_op.results, account_id, status)]]
    /\ UNCHANGED <<now, cbVars, rmVars, mgrVars, fbVars, classifier, sync_op>>

\* lines 222-232: update_item writes the local copy; the call returns True
UpdateItem(account_id) ==
    /\ processor[account_id].pc = "read"
    /\ sync_op' = [sync_op EXCEPT !.results =
                      update_item(@, processor[account_id].current_results)]
    /\ processor' = [processor EXCEPT ![account_id].pc = "returned",
                                      ![account_id].current_results = NoResults]
    /\ UNCHANGED <<now, cbVars, rmVars, mgrVars, fbVars, classifier>>

NextTracker ==
    \/ \E account_id \in Accounts, status \in {"success", "failed"} :
          GetItem(account_id, status)
    \/ \E account_id \in Accounts : UpdateItem(account_id)

SpecTracker == InitTracker /\ [][NextTracker]_vars

\* ============================================================== SpecLocks
\* The locks of circuit_breaker.py alone: the registry lock of the
\* CircuitBreakerManager ("manager") and the lock of each breaker (named as
\* the breaker). threading.Lock is not reentrant. Threads run the manager's
\* and the breakers' public methods; a method is the sequence of its lock
\* acquisitions and releases, with the registry insertion, the iteration
\* over the registry, and the protected function in between.
LockThreads == {"t1", "t2", "t3"}
BreakerNames == {"op1", "op2"}
MaxLockCalls == 3      \* SpecLocks: methods called in one behaviour

Acq(lock) == [do |-> "acquire", lock |-> lock]
Rel(lock) == [do |-> "release", lock |-> lock]

\* `with self._lock:` around a body that takes no other lock
WithLock(lock) == <<Acq(lock), Rel(lock)>>

\* get_breaker, lines 289-294
get_breaker_locks(name) ==
    <<Acq("manager"), [do |-> "register", lock |-> name], Rel("manager")>>

\* CircuitBreaker.call, lines 106-132: the admission section, then the
\* function outside the lock, then _record_success or _record_failure; a
\* rejected call ends with the admission section
call_locks(name, rejected) ==
    IF rejected THEN WithLock(name)
    ELSE WithLock(name) \o <<[do |-> "run", lock |-> name]>> \o WithLock(name)

\* force_open taking the registry lock inside its own lock
force_open_locks_nested(name) == <<Acq(name), Acq("manager"), Rel("manager"), Rel(name)>>

get_state_locks(name) == WithLock(name)
reset_locks(name) == WithLock(name)
force_open_locks(name) == WithLock(name)
force_closed_locks(name) == WithLock(name)

\* get_all_stats, lines 322-341, and reset_all, lines 345-348: the registry
\* lock is held over the whole iteration
manager_iteration_locks(op) ==
    <<Acq("manager"), [do |-> "iterate", lock |-> op], Rel("manager")>>

RECURSIVE Flatten(_)
Flatten(seqs) == IF seqs = <<>> THEN <<>> ELSE Head(seqs) \o Flatten(Tail(seqs))

\* the body of the loop over the registered breakers: get_stats() and
\* get_state() in get_all_stats (also when called by get_health_status),
\* reset() in reset_all
iteration_locks(op, names) ==
    Flatten([i \in DOMAIN names |->
                IF op = "reset_all" THEN reset_locks(names[i])
                ELSE WithLock(names[i]) \o get_state_locks(names[i])])

ManagerOperations ==
    {"get_breaker", "call_with_breaker", "get_all_stats", "get_health_status", "reset_all"}
BreakerOperations == {"call", "get_state", "reset", "force_open", "force_closed"}

\* the steps of one call of the operation
OperationLocks(op, name, rejected) ==
    CASE op = "get_breaker" -> get_breaker_locks(name)
      [] op = "call_with_breaker" -> get_breaker_locks(name) \o call_locks(name, rejected)
      [] op \in {"get_all_stats", "get_health_status", "reset_all"}
            -> manager_iteration_locks(op)
      [] op = "call" -> call_locks(name, rejected)
      [] op = "get_state" -> get_state_locks(name)
      [] op = "reset" -> reset_locks(name)
      [] op = "force_open" -> force_open_locks(name)
      [] OTHER -> force_closed_locks(name)

LockIdle == [op |-> "idle", program |-> <<>>]

InitLocks ==
    /\ CBUnused
    /\ RMUnused
    /\ FBUnused
    /\ HandlersUnused
    /\ locks = [l \in BreakerNames \cup {"manager"} |-> "free"]
    /\ mt = [t \in LockThreads |-> LockIdle]
    /\ created = [names |-> <<>>]
    /\ calls = 0
    /\ health = NoHealth

Registered(name) == \E i \in DOMAIN created.names : created.names[i] = name

\* a thread calls a method of the manager, or of a breaker it got earlier
StartOperation(t, op, name, rejected) ==
    /\ mt[t] = LockIdle
    /\ calls < MaxLockCalls
    /\ op \in BreakerOperations => Registered(name)
    /\ calls' = calls + 1
    /\ mt' = [mt EXCEPT ![t] = [op |-> op, program |-> OperationLocks(op, name, rejected)]]
    /\ UNCHANGED <<handlerVars, now, cbVars, rmVars, fbVars, locks, created, health>>

NextStep(t) == Head(mt[t].program)
Proceed(t) ==
    IF Len(mt[t].program) = 1 THEN LockIdle
    ELSE [mt[t] EXCEPT !.program = Tail(@)]

\* Lock.acquire(): blocks while the lock is held, by whichever thread
Acquire(t) ==
    /\ mt[t].program # <<>>
    /\ NextStep(t).do = "acquire"
    /\ locks[NextStep(t).lock] = "free"
    /\ locks' = [locks EXCEPT ![NextStep(t).lock] = t]
    /\ mt' = [mt EXCEPT ![t] = Proceed(t)]
    /\ UNCHANGED <<handlerVars, now, cbVars, rmVars, fbVars, created, calls, health>>

Release(t) ==
    /\ mt[t].program # <<>>
    /\ NextStep(t).do = "release"
    /\ locks' = [locks EXCEPT ![NextStep(t).lock] = "free"]
    /\ mt' = [mt EXCEPT ![t] = Proceed(t)]
    /\ UNCHANGED <<handlerVars, now, cbVars, rmVars, fbVars, created, calls, health>>

\* get_breaker's body: the breaker is created if the registry lacks it
Register(t) ==
    /\ mt[t].program # <<>>
    /\ NextStep(t).do = "register"
    /\ created' = IF Registered(NextStep(t).lock) THEN created
                  ELSE [created EXCEPT !.names = Append(@, NextStep(t).lock)]
    /\ mt' = [mt EXCEPT ![t] = Proceed(t)]
    /\ UNCHANGED <<handlerVars, now, cbVars, rmVars, fbVars, locks, calls, health>>

\* the loop over self._breakers starts: its steps for the breakers
\* registered by now
Iterate(t) ==
    /\ mt[t].program # <<>>
    /\ NextStep(t).do = "iterate"
    /\ mt' = [mt EXCEPT ![t].program =
                 iteration_locks(NextStep(t).lock, created.names) \o Tail(@)]
    /\ UNCHANGED <<handlerVars, now, cbVars, rmVars, fbVars, locks, created, calls, health>>

\* the protected function runs, outside every lock
RunFunction(t) ==
    /\ mt[t].program # <<>>
    /\ NextStep(t).do = "run"
    /\ mt' = [mt EXCEPT ![t] = Proceed(t)]
    /\ UNCHANGED <<handlerVars, now, cbVars, rmVars, fbVars, locks, created, calls, health>>

NextLocks ==
    \/ \E t \in LockThreads, op \in ManagerOperations \cup BreakerOperations,
          name \in BreakerNames, rejected \in BOOLEAN :
          StartOperation(t, op, name, rejected)
    \/ \E t \in LockThreads : Acquire(t)
    \/ \E t \in LockThreads : Release(t)
    \/ \E t \in LockThreads : Register(t)
    \/ \E t \in LockThreads : Iterate(t)
    \/ \E t \in LockThreads : RunFunction(t)

SpecLocks == InitLocks /\ [][NextLocks]_vars

\* ============================================================== SpecCycle
\* The breaker of Spec, with the same callers, controls and clock, under the
\* configurations with thresholds 1 and 2 and a timeout of one clock unit:
\* the ones in which a behaviour of MaxRequests calls goes through OPEN,
\* HALF_OPEN and OPEN again.
InitCycle ==
    /\ now = 0
    /\ \E k \in 1..2, s \in 1..2 :
          circuit_breaker = CircuitBreaker("test_circuit", CircuitBreakerConfig(k, s, 1), 0)
    /\ threads = [t \in Threads |-> "idle"]
    /\ failure_run = 0
    /\ success_run = 0
    /\ controls = 0
    /\ RMUnused
    /\ MgrUnused
    /\ FBUnused
    /\ HandlersUnused

SpecCycle == InitCycle /\ [][Next]_vars

\* ============================================================== SpecRead
\* The manager of SpecHealth whose breakers are also called through
\* call_with_breaker and read one at a time: MaxReadCalls calls of
\* call_with_breaker and force_open, the clock, get_state, get_all_stats and
\* get_health_status.
MaxReadCalls == 2

ReadNames == {"op1", "op2"}

\* call_with_breaker(name, func) by a single caller, func returning
\* (succeeds) or raising: admission, the function, the recording
call_with_breaker(b, succeeds, t) ==
    LET admission == call_admission(b, t)
    IN IF admission.raised # NoError THEN admission.breaker
       ELSE IF succeeds THEN _record_success(admission.breaker, t)
       ELSE _record_failure(admission.breaker, t)

CallWithBreaker(name, succeeds) ==
    /\ name \in DOMAIN breakers
    /\ calls < MaxReadCalls
    /\ calls' = calls + 1
    /\ breakers' = [breakers EXCEPT ![name] = call_with_breaker(@, succeeds, now)]
    /\ UNCHANGED <<handlerVars, now, controls, health, circuit_breaker, threads,
                   failure_run, success_run, rmOther, locks, mt, created, fbVars>>

\* get_breaker(name).force_open(), counted with the calls
ReadForceOpen(name) ==
    /\ name \in DOMAIN breakers
    /\ calls < MaxReadCalls
    /\ calls' = calls + 1
    /\ breakers' = [breakers EXCEPT ![name] = force_open(@, now)]
    /\ UNCHANGED <<handlerVars, now, controls, health, circuit_breaker, threads,
                   failure_run, success_run, rmOther, locks, mt, created, fbVars>>

\* get_breaker(name).get_state()
ReadState(name) ==
    /\ name \in DOMAIN breakers
    /\ breakers' = [breakers EXCEPT ![name] = get_state(@, now).breaker]
    /\ UNCHANGED <<handlerVars, now, controls, health, healthOther>>

\* the registry after get_all_stats: get_stats copies, get_state is called on
\* every breaker
registry_after_get_all_stats(registry, t) ==
    [n \in DOMAIN registry |-> get_state(registry[n], t).breaker]

\* manager.get_all_stats()
GetAllStats ==
    /\ breakers' = registry_after_get_all_stats(breakers, now)
    /\ UNCHANGED <<handlerVars, now, controls, health, healthOther>>

NextRead ==
    \/ \E name \in ReadNames, config \in HealthConfigs : RegisterBreaker(name, config)
    \/ \E name \in ReadNames, succeeds \in BOOLEAN : CallWithBreaker(name, succeeds)
    \/ \E name \in ReadNames : ReadForceOpen(name)
    \/ \E name \in ReadNames : ReadState(name)
    \/ HealthTick
    \/ GetAllStats
    \/ GetHealthStatus

SpecRead == InitHealth /\ [][NextRead]_vars

\* ============================================================ SpecAttempts
\* execute_with_recovery on operations that raise the same error at every
\* invocation, for errors whose classification carries a max_retry_attempts
\* of 2 (unknown AWS code), 3 (connection error) and 5 (throttling), and for
\* an error that is not retryable.
AttemptErrors ==
    {ClientError("Unknown"), ClientError("ThrottlingException"),
     OtherError("ConnectionError"), ClientError("AccessDeniedException")}

AttemptScripts(n) == {[i \in 1..n |-> e] : e \in AttemptErrors}

\* the test configuration (base 0.1 s, max 1.0 s, breaker timeout 0.25 s, no
\* jitter) without a breaker, with a breaker that opens at the first failure
\* and with one that opens at the client's threshold
AttemptConfigs ==
    {RecoveryConfig(n, 100, 1000, DefaultJitterFactor, sw[1], sw[2], 250, TRUE, FALSE) :
        n \in 1..MaxAttempts,
        sw \in {<<FALSE, 1>>, <<TRUE, 1>>, <<TRUE, ClientFailureThreshold>>}}

InitAttempts ==
    /\ CBUnused
    /\ rm_config \in AttemptConfigs
    /\ breakers = <<>>
    /\ pc = "idle"
    /\ operation_name = ""
    /\ script = <<>>
    /\ attempt_num = 0
    /\ attempts = <<>>
    /\ last_error = NoError
    /\ delay = 0
    /\ result = NoResult
    /\ invoked = 0
    /\ sleeps = 0
    /\ runs = 0
    /\ ticks = 0
    /\ MgrUnused
    /\ FBUnused
    /\ HandlersUnused

NextAttempts ==
    \/ \E name \in OperationNames :
          \E scr \in AttemptScripts(rm_config.max_retry_attempts) :
             ExecuteWithRecovery(name, scr)
    \/ AttemptBlocked
    \/ AttemptFailure
    \/ Sleep
    \/ Return

SpecAttempts == InitAttempts /\ [][NextAttempts]_vars

\* ============================================================= SpecJitter
\* The retry loop of SpecDelay under configurations whose delays lie on both
\* sides of the 0.1 s floor of the jittered delay: base delays of 0.05 s,
\* 0.1 s and 2 s, jitter factors 0.1 and 0.5, jitter on and off.
JitterConfigs ==
    {RecoveryConfig(MaxDelayAttempts, d[1], d[2], jf, FALSE,
                    ClientFailureThreshold, ClientBreakerTimeout, exp, jit) :
        d \in {<<50, 1000>>, <<100, 1000>>, <<2000, 5000>>},
        jf \in {DefaultJitterFactor, 5 * DefaultJitterFactor},
        exp \in BOOLEAN, jit \in BOOLEAN}

InitJitter ==
    /\ CBUnused
    /\ rm_config \in JitterConfigs
    /\ breakers = <<>>
    /\ pc = "idle"
    /\ operation_name = ""
    /\ script = <<>>
    /\ attempt_num = 0
    /\ attempts = <<>>
    /\ last_error = NoError
    /\ delay = 0
    /\ result = NoResult
    /\ invoked = 0
    /\ sleeps = 0
    /\ runs = 0
    /\ ticks = 0
    /\ MgrUnused
    /\ FBUnused
    /\ HandlersUnused

SpecJitter == InitJitter /\ [][NextDelay]_vars

\* ============================================================== SpecAlias
\* Callers of classify_error that change a field of the ErrorClassification
\* they were given.  ErrorClassification is a plain (not frozen) dataclass;
\* for a code of AWS_ERROR_MAPPINGS classify_error returns the table's own
\* entry, for every other error an object built for that call.
MaxMutations == 2

FreshObject == "<fresh>"

\* the object classify_error returns: the entry of the table under the code
\* (named by the code) or a new object
_returned_object(mappings, error) ==
    IF /\ error.type = "ClientError"
       /\ error.code # "<list>"
       /\ error.code \in DOMAIN mappings
    THEN error.code
    ELSE FreshObject

InitAlias ==
    /\ CBUnused
    /\ RMUnused
    /\ MgrUnused
    /\ FBUnused
    /\ classifier = [phase |-> "alias", mappings |-> AWS_ERROR_MAPPINGS,
                     last |-> NoCall, mutations |-> 0]
    /\ sync_op = NoSyncOperation
    /\ processor = NoProcessor

\* classification = classifier.classify_error(error): the caller holds the
\* object returned
ClassifyAndKeep(error) ==
    /\ classifier' = [classifier EXCEPT
                         !.last = [error |-> error,
                                   classification |->
                                       classify_error_with(classifier.mappings, error),
                                   object |-> _returned_object(classifier.mappings, error)]]
    /\ UNCHANGED <<now, cbVars, rmVars, mgrVars, fbVars, sync_op, processor>>

\* classification.is_retryable = value, by the caller that holds the object
\* of the last call: an assignment to the table's entry when the object is one
SetIsRetryable(value) ==
    /\ classifier.last # NoCall
    /\ classifier.mutations < MaxMutations
    /\ classifier' = [classifier EXCEPT
                         !.mutations = @ + 1,
                         !.last.classification.is_retryable = value,
                         !.mappings =
                             IF classifier.last.object = FreshObject THEN @
                             ELSE [@ EXCEPT ![classifier.last.object].is_retryable = value]]
    /\ UNCHANGED <<now, cbVars, rmVars, mgrVars, fbVars, sync_op, processor>>

NextAlias ==
    \/ \E error \in ClassifyErrors : ClassifyAndKeep(error)
    \/ \E value \in BOOLEAN : SetIsRetryable(value)

SpecAlias == InitAlias /\ [][NextAlias]_vars

\* =============================================================== SpecLive
\* The breaker of SpecCycle under callers that never stop and a wrapped
\* function that fails at most MaxLiveFailures times and succeeds from then
\* on.  To keep the counters finite, at most MaxLiveRejections calls are made
\* while the breaker rejects and at most MaxLiveRequests while it is CLOSED;
\* trial calls (OPEN after the timeout, HALF_OPEN) are always possible.  The
\* clock is advanced only while it is read: while the breaker is OPEN and its
\* timeout has not elapsed.
MaxLiveFailures == 3
MaxLiveRejections == 1
MaxLiveRequests == 4

\* call(), lines 106-122, by a caller that is free to call
LiveAdmission(t) ==
    /\ threads[t] = "idle"
    /\ LET r == call_admission(circuit_breaker, now)
       IN /\ IF r.raised.type = "CircuitBreakerError"
             THEN circuit_breaker.stats.rejected_requests < MaxLiveRejections
             ELSE circuit_breaker.state = CLOSED =>
                     circuit_breaker.stats.total_requests < MaxLiveRequests
          /\ circuit_breaker' = r.breaker
          /\ threads' = [threads EXCEPT ![t] =
                IF r.raised.type = "CircuitBreakerError" THEN "idle" ELSE "in_func"]
          /\ success_run' = SuccessRunAfterCheck(circuit_breaker, r.breaker)
    /\ UNCHANGED <<handlerVars, mgrVars, fbVars, now, failure_run, controls, rmVars>>

\* call(), lines 126, 130-132: one of the failures the function still has
LiveFailure(t) ==
    /\ circuit_breaker.stats.failed_requests < MaxLiveFailures
    /\ CallFailure(t)

\* the clock advances towards the end of the open interval
LiveTick ==
    /\ circuit_breaker.state = OPEN
    /\ now - circuit_breaker.last_state_change < circuit_breaker.stats.current_timeout
    /\ now' = now + 1
    /\ UNCHANGED <<handlerVars, mgrVars, fbVars, circuit_breaker, threads, failure_run,
                   success_run, controls, rmVars>>

NextLive ==
    \/ \E t \in Threads : LiveAdmission(t)
    \/ \E t \in Threads : CallSuccess(t)
    \/ \E t \in Threads : LiveFailure(t)
    \/ GetState
    \/ LiveTick

\* time passes, every caller calls again, every call of the function returns
\* or raises
LiveFairness ==
    /\ WF_vars(LiveTick)
    /\ \A t \in Threads : WF_vars(LiveAdmission(t))
    /\ \A t \in Threads : WF_vars(CallSuccess(t) \/ LiveFailure(t))

SpecLiveSafety == InitCycle /\ [][NextLive]_vars

SpecLive == SpecLiveSafety /\ LiveFairness

\* ============================================================ claims, Spec
\* what a step did, read off the breaker's counters and the threads
RequestCounted ==
    circuit_breaker'.stats.total_requests = circuit_breaker.stats.total_requests + 1
FailureRecorded ==
    circuit_breaker'.stats.failed_requests = circuit_breaker.stats.failed_requests + 1
SuccessRecorded ==
    circuit_breaker'.stats.successful_requests = circuit_breaker.stats.successful_requests + 1
\* the call that was counted raised CircuitBreakerError: no thread entered the
\* wrapped function
CallRejected ==
    /\ RequestCounted
    /\ threads' = threads
    /\ circuit_breaker'.stats.rejected_requests = circuit_breaker.stats.rejected_requests + 1
\* the call that was counted went on to the wrapped function
CallAdmitted ==
    /\ RequestCounted
    /\ \E t \in Threads : threads[t] = "idle" /\ threads'[t] = "in_func"
    /\ circuit_breaker'.stats.rejected_requests = circuit_breaker.stats.rejected_requests
Elapsed == now - circuit_breaker.last_state_change

\* C1: with failure_threshold = k, the k-th failure recorded in a row (no
\* success and no control operation between them) leaves the breaker OPEN,
\* and a call made after that run while the breaker is OPEN and the timeout
\* has not elapsed is rejected without the wrapped function being invoked.
C1_OpensAfterThresholdFailures ==
    [][ /\ (FailureRecorded /\ failure_run' >= circuit_breaker.config.failure_threshold)
            => circuit_breaker'.state = OPEN
        /\ (/\ RequestCounted
            /\ failure_run >= circuit_breaker.config.failure_threshold
            /\ circuit_breaker.state = OPEN
            /\ Elapsed < circuit_breaker.stats.current_timeout)
            => (CallRejected /\ circuit_breaker'.state = OPEN) ]_vars

\* C1 witness: threshold 3, three failures in a row, then a fourth call rejected
C1_Witness ==
    /\ circuit_breaker.config.failure_threshold = 3
    /\ failure_run = 3
    /\ controls = 0
    /\ circuit_breaker.state = OPEN
    /\ circuit_breaker.stats.failed_requests = 3
    /\ circuit_breaker.stats.total_requests = 4
    /\ circuit_breaker.stats.rejected_requests = 1
    /\ \A t \in Threads : threads[t] = "idle"

\* C2: a call made on an OPEN breaker is rejected while the time since the
\* breaker became OPEN is below current_timeout; at or after current_timeout
\* the call first makes the breaker HALF_OPEN, with the consecutive-success
\* counter reset, and is admitted to the wrapped function.
C2_OpenRejectsUntilTimeout ==
    [][ (RequestCounted /\ circuit_breaker.state = OPEN) =>
          IF Elapsed < circuit_breaker.stats.current_timeout
          THEN CallRejected /\ circuit_breaker'.state = OPEN
          ELSE /\ CallAdmitted
               /\ circuit_breaker'.state = HALF_OPEN
               /\ circuit_breaker'.consecutive_successes = 0
               /\ circuit_breaker'.stats.state_changes
                     = circuit_breaker.stats.state_changes + 1 ]_vars

\* C2 witness: the breaker opened by failures, one call was rejected, and a
\* later call at the timeout is inside the wrapped function, breaker HALF_OPEN
C2_Witness ==
    /\ controls = 0
    /\ circuit_breaker.state = HALF_OPEN
    /\ circuit_breaker.stats.rejected_requests = 1
    /\ circuit_breaker.stats.state_changes = 2
    /\ circuit_breaker.last_state_change
          = circuit_breaker.stats.current_timeout
    /\ now = circuit_breaker.last_state_change
    /\ \E t \in Threads : threads[t] = "in_func"

\* C3: a success recorded while HALF_OPEN closes the breaker exactly when it is
\* the success_threshold-th success in a row since the breaker became
\* HALF_OPEN; the breaker is then CLOSED with consecutive_failures = 0 and
\* current_timeout = config.timeout; otherwise it stays HALF_OPEN.
C3_HalfOpenClosesAfterSuccesses ==
    [][ (SuccessRecorded /\ circuit_breaker.state = HALF_OPEN) =>
          IF success_run' >= circuit_breaker.config.success_threshold
          THEN /\ circuit_breaker'.state = CLOSED
               /\ circuit_breaker'.consecutive_failures = 0
               /\ circuit_breaker'.stats.current_timeout = circuit_breaker.config.timeout
          ELSE circuit_breaker'.state = HALF_OPEN ]_vars

\* C3 witness: {failure_threshold 3, success_threshold 2}: 3 failures, OPEN,
\* timeout elapsed, HALF_OPEN, 2 successes, CLOSED
C3_Witness ==
    /\ circuit_breaker.config.failure_threshold = 3
    /\ circuit_breaker.config.success_threshold = 2
    /\ controls = 0
    /\ circuit_breaker.stats.failed_requests = 3
    /\ circuit_breaker.stats.successful_requests = 2
    /\ circuit_breaker.stats.total_requests = 5
    /\ circuit_breaker.stats.state_changes = 3
    /\ success_run = 2
    /\ circuit_breaker.state = CLOSED

\* C4: a failure recorded while the breaker is HALF_OPEN leaves it OPEN,
\* whatever consecutive_failures is and however many successes were recorded
\* in HALF_OPEN before.
C4_HalfOpenFailureOpens ==
    [][ (FailureRecorded /\ circuit_breaker.state = HALF_OPEN)
          => circuit_breaker'.state = OPEN ]_vars

\* C15: a call is rejected only when the breaker is OPEN and its timeout has
\* not elapsed.  Every call that finds the breaker CLOSED or HALF_OPEN, or
\* OPEN with the timeout elapsed, is admitted and its thread goes on to the
\* wrapped function, however many other threads are inside it already.
C15_RejectedOnlyWhenOpen ==
    [][ RequestCounted =>
          IF circuit_breaker.state = OPEN
             /\ Elapsed < circuit_breaker.stats.current_timeout
          THEN CallRejected
          ELSE CallAdmitted /\ circuit_breaker'.state # OPEN ]_vars

\* two failures opened the breaker (failure_threshold 1), and after the
\* timeout both threads were admitted as trial calls of the HALF_OPEN breaker
\* and are inside the wrapped function together
C15_Witness ==
    /\ \A t \in Threads : threads[t] = "in_func"
    /\ circuit_breaker.state = HALF_OPEN
    /\ circuit_breaker.config.failure_threshold = 1
    /\ circuit_breaker.stats.total_requests = 4
    /\ circuit_breaker.stats.failed_requests = 2
    /\ circuit_breaker.stats.successful_requests = 0
    /\ circuit_breaker.stats.rejected_requests = 0
    /\ circuit_breaker.stats.state_changes = 2
    /\ controls = 0

\* C17: in every reachable state of the breaker, reset() gives a CLOSED
\* breaker whose five counters are zero, whose consecutive counters are zero
\* and whose current_timeout is config.timeout; force_open() gives an OPEN
\* breaker and force_closed() a CLOSED one.
C17_ControlsLeaveTheirState ==
    LET r == reset(circuit_breaker, now)
    IN /\ r.state = CLOSED
       /\ r.stats.total_requests = 0
       /\ r.stats.successful_requests = 0
       /\ r.stats.failed_requests = 0
       /\ r.stats.rejected_requests = 0
       /\ r.stats.state_changes = 0
       /\ r.consecutive_failures = 0
       /\ r.consecutive_successes = 0
       /\ r.stats.current_timeout = circuit_breaker.config.timeout
       /\ r.config = circuit_breaker.config
       /\ force_open(circuit_breaker, now).state = OPEN
       /\ force_closed(circuit_breaker, now).state = CLOSED

\* reset() has run on a breaker that had counted requests and has one call
\* inside the wrapped function: the counters are back at zero
C17_Witness ==
    /\ controls = 1
    /\ circuit_breaker.state = CLOSED
    /\ circuit_breaker.stats.total_requests = 0
    /\ circuit_breaker.stats.state_changes = 0
    /\ circuit_breaker.last_state_change > 0
    /\ \E t \in Threads : threads[t] = "in_func"

\* C27: in every reachable state, whatever the interleaving of calls and
\* controls, a CLOSED breaker has consecutive_failures < failure_threshold and
\* a HALF_OPEN breaker has consecutive_successes < success_threshold.
C27_CountersBelowThreshold ==
    /\ circuit_breaker.state = CLOSED =>
          circuit_breaker.consecutive_failures < circuit_breaker.config.failure_threshold
    /\ circuit_breaker.state = HALF_OPEN =>
          circuit_breaker.consecutive_successes < circuit_breaker.config.success_threshold

\* failure_threshold failures opened the breaker and force_closed() closed
\* it again while a call was inside the wrapped function
C27_Witness ==
    /\ circuit_breaker.state = CLOSED
    /\ controls = 1
    /\ circuit_breaker.stats.state_changes = 2
    /\ circuit_breaker.config.failure_threshold = 2
    /\ circuit_breaker.stats.failed_requests = 2
    /\ circuit_breaker.stats.successful_requests = 0
    /\ circuit_breaker.consecutive_failures = 0
    /\ \E t \in Threads : threads[t] = "in_func"

\* C28: a CLOSED breaker becomes OPEN only by force_open() or by the
\* recorded failure that brings consecutive_failures to failure_threshold; a
\* recorded success sets consecutive_failures to 0, and a failure recorded on
\* a CLOSED breaker that leaves the counter below the threshold leaves it
\* CLOSED.  As long as no control was used, consecutive_failures is the
\* number of failures recorded since the last recorded success.
C28_ClosedOpensOnlyAtThreshold ==
    [][ /\ (circuit_breaker.state = CLOSED /\ circuit_breaker'.state = OPEN) =>
              \/ controls' = controls + 1
              \/ /\ FailureRecorded
                 /\ circuit_breaker'.consecutive_failures
                       = circuit_breaker.consecutive_failures + 1
                 /\ circuit_breaker'.consecutive_failures
                       >= circuit_breaker.config.failure_threshold
        /\ SuccessRecorded => circuit_breaker'.consecutive_failures = 0
        /\ (/\ FailureRecorded
            /\ circuit_breaker.state = CLOSED
            /\ circuit_breaker.consecutive_failures + 1
                  < circuit_breaker.config.failure_threshold)
              => circuit_breaker'.state = CLOSED
        /\ controls' = 0 => circuit_breaker'.consecutive_failures = failure_run' ]_vars

\* three failures were recorded on a breaker with failure_threshold 2, a
\* success between them: it never left CLOSED
C28_Witness ==
    /\ circuit_breaker.state = CLOSED
    /\ controls = 0
    /\ circuit_breaker.config.failure_threshold = 2
    /\ circuit_breaker.stats.failed_requests = 3
    /\ circuit_breaker.stats.successful_requests >= 1
    /\ circuit_breaker.stats.state_changes = 0
    /\ circuit_breaker.consecutive_failures = 1

\* ========================================================== claims, SpecRM
\* execute_with_recovery has returned `result`
Returned == pc = "done"
MaxRetry == rm_config.max_retry_attempts
\* the result is the one built for a breaker rejection
Rejected == result.error.type = "CircuitBreakerError"
\* operation_func raises a retryable error at every invocation
AlwaysFailsRetryably ==
    MaxRetry >= 1 /\ \A i \in 1..MaxRetry : script[i] \in RetryableOutcomes
\* operation_func raises retryable errors at invocations 1..s-1 and returns
\* at invocation s
SucceedsOn(s) ==
    /\ s \in 1..MaxRetry
    /\ script[s] = NoError
    /\ \A i \in 1..(s - 1) : script[i] \in RetryableOutcomes
\* the breaker of the current operation name is OPEN and its timeout has not
\* elapsed: circuit_breaker.call rejects
BreakerRejects ==
    /\ rm_config.circuit_breaker_enabled
    /\ breakers[operation_name].state = OPEN
    /\ now - breakers[operation_name].last_state_change
          < breakers[operation_name].stats.current_timeout

C6_NonRetryableStopsAtOnce ==
    (/\ invoked >= 1
     /\ script[1] # NoError
     /\ ~classify_error(script[1]).is_retryable) =>
        /\ Returned
        /\ invoked = 1
        /\ sleeps = 0
        /\ ~result.success
        /\ Len(result.attempts) = 1
        /\ result.attempts[1].error = script[1]
        /\ result.error = script[1]

\* C6 witness: n = 3, the first invocation raised AccessDeniedException
C6_Witness ==
    /\ Returned
    /\ MaxRetry = 3
    /\ script[1] = ClientError("AccessDeniedException")
    /\ invoked = 1
    /\ result.error = ClientError("AccessDeniedException")
    /\ Len(result.attempts) = 1

\* C7: an attempt made while the breaker of the operation name is OPEN and
\* its timeout has not elapsed ends execute_with_recovery in that step: the
\* function is not invoked, nothing is slept, the clock does not move, and the
\* result is success = false, circuit_breaker_blocked, with the breaker-open
\* error of that name; when it is the first attempt of the call, the call has
\* invoked the function zero times.
C7_RejectionReturnsAtOnce ==
    [][ (pc = "attempt" /\ BreakerRejects) =>
          /\ pc' = "done"
          /\ invoked' = invoked
          /\ sleeps' = sleeps
          /\ now' = now
          /\ ~result'.success
          /\ result'.recovery_strategy = "circuit_breaker_blocked"
          /\ result'.error.type = "CircuitBreakerError"
          /\ result'.error.code = operation_name
          /\ Len(result'.attempts) = attempt_num
          /\ breakers'[operation_name].state = OPEN
          /\ (attempt_num = 1 => invoked' = 0) ]_vars

\* C7 witness: the second call for a name whose breaker opened in the first:
\* rejected at its first attempt, function never invoked
C7_Witness ==
    /\ Returned
    /\ runs = 2
    /\ ticks = 0
    /\ invoked = 0
    /\ Len(result.attempts) = 1
    /\ result.recovery_strategy = "circuit_breaker_blocked"
    /\ breakers[operation_name].state = OPEN
    /\ breakers[operation_name].stats.rejected_requests = 1

\* C8 as stated: when the function raises retryable errors at invocations
\* 1..s-1 and returns at invocation s <= n, it is invoked exactly s times and
\* the result is success = true with s attempts, only the last one marked
\* success, and direct_success when s = 1, retry_success when s > 1.
C8_SucceedsOnAttemptS ==
    \A s \in 1..MaxRetry :
        (Returned /\ SucceedsOn(s)) =>
            /\ invoked = s
            /\ result.success
            /\ Len(result.attempts) = s
            /\ \A i \in 1..Len(result.attempts) : result.attempts[i].success <=> (i = s)
            /\ result.recovery_strategy
                  = IF s = 1 THEN "direct_success" ELSE "retry_success"

\* C8 amended: when the function raises retryable errors at invocations
\* 1..s-1 and returns at invocation s <= n, either no attempt was rejected by
\* the breaker, and then the function was invoked exactly s times and the
\* result is success = true with s attempts, only the last marked success,
\* direct_success when s = 1 and retry_success when s > 1; or the breaker
\* rejected attempt j <= s, and then the function was invoked j - 1 times and
\* the result is success = false, circuit_breaker_blocked.  No attempt is
\* rejected when the breaker is disabled, nor in the first call of a name
\* when s - 1 < failure threshold.
C8_SucceedsOnAttemptSUnlessRejected ==
    \A s \in 1..MaxRetry :
        (Returned /\ SucceedsOn(s)) =>
            /\ IF Rejected
               THEN /\ rm_config.circuit_breaker_enabled
                    /\ ~result.success
                    /\ result.recovery_strategy = "circuit_breaker_blocked"
                    /\ Len(result.attempts) <= s
                    /\ invoked = Len(result.attempts) - 1
               ELSE /\ invoked = s
                    /\ result.success
                    /\ Len(result.attempts) = s
                    /\ \A i \in 1..Len(result.attempts) :
                          result.attempts[i].success <=> (i = s)
                    /\ result.recovery_strategy
                          = IF s = 1 THEN "direct_success" ELSE "retry_success"
            /\ (runs = 1 /\ s - 1 < rm_config.circuit_breaker_failure_threshold)
                  => ~Rejected

\* C8 witness: two throttling failures, then success at the third attempt
C8_Witness ==
    /\ Returned
    /\ MaxRetry = 3
    /\ SucceedsOn(3)
    /\ script[1] = ClientError("ThrottlingException")
    /\ invoked = 3
    /\ result.success
    /\ result.recovery_strategy = "retry_success"

\* C9: through one AccountManagementClient, every always-failing operation
\* invokes the remote call exactly max_attempts times when its error code is
\* retryable and exactly once when it is not, whatever operations preceded it.
C9_EveryOperationGetsItsAttempts ==
    (/\ Returned
     /\ rm_config \in ClientConfigs
     /\ script[1] # NoError
     /\ \A i \in 1..MaxRetry : script[i] = script[1]) =>
        IF script[1] \in {ClientError("ThrottlingException"),
                          ClientError("ServiceUnavailableException")}
        THEN invoked = MaxRetry
        ELSE invoked = 1

\* C10: every result returned has at most max_retry_attempts attempts, and
\* exactly one attempt marked success when result.success, none otherwise.
C10_AttemptsBoundedOneSuccess ==
    Returned =>
        /\ Len(result.attempts) <= MaxRetry
        /\ Cardinality({i \in 1..Len(result.attempts) : result.attempts[i].success})
              = IF result.success THEN 1 ELSE 0

\* C10 witness: a successful result with as many attempts as the bound allows
C10_Witness ==
    /\ Returned
    /\ MaxRetry = 3
    /\ result.success
    /\ Len(result.attempts) = 3
    /\ result.attempts[3].success

\* C11: every failed result of a call with max_retry_attempts >= 1 carries an
\* error, the one of its last attempt: for retry_exhausted the error raised by
\* the last invocation of the function, for circuit_breaker_blocked the
\* CircuitBreakerError of the breaker of that operation name.
C11_ErrorIsLastRaised ==
    (Returned /\ MaxRetry >= 1 /\ ~result.success) =>
        /\ result.error # NoError
        /\ result.attempts # <<>>
        /\ result.error = result.attempts[Len(result.attempts)].error
        /\ result.recovery_strategy \in {"retry_exhausted", "circuit_breaker_blocked"}
        /\ result.recovery_strategy = "retry_exhausted" =>
              (invoked >= 1 /\ result.error = script[invoked])
        /\ result.recovery_strategy = "circuit_breaker_blocked" =>
              /\ result.error.type = "CircuitBreakerError"
              /\ result.error.code = operation_name

\* C11 witness: a throttling error, then an access-denied error that ends the
\* call: the result carries the second error
C11_Witness ==
    /\ Returned
    /\ invoked = 2
    /\ script[1] = ClientError("ThrottlingException")
    /\ script[2] = ClientError("AccessDeniedException")
    /\ ~result.success
    /\ result.error = ClientError("AccessDeniedException")

\* ========================================================== claims, SpecMT
\* threads inside func, between the admission block and the record block
MTRunning == {t \in MTThreads : mt[t].pc = "in_func"}
\* threads inside breaker.call
MTInCall ==
    {t \in MTThreads : mt[t].pc \in {"admitted_locked", "rejected_locked", "in_func",
                                     "recorded_success", "recorded_failure"}}

\* C12: a thread holds the breaker lock only inside the admission block and
\* the record blocks of call, and the manager lock only inside get_breaker:
\* never while it is inside the wrapped function or sleeping between two
\* attempts.  So while a caller is inside the wrapped function or asleep, a
\* thread that is about to call the same breaker and finds no other thread in
\* a bookkeeping block can take the admission step.
C12_NoLockHeldAcrossFunctionOrSleep ==
    /\ \A t \in MTThreads :
          /\ locks.breaker = t
                <=> mt[t].pc \in {"admitted_locked", "rejected_locked",
                                  "recorded_success", "recorded_failure"}
          /\ locks.manager = t <=> mt[t].pc = "in_get_breaker"
    /\ \A t, u \in MTThreads :
          (/\ mt[t].pc \in {"in_func", "sleeping"}
           /\ mt[u].pc = "have_breaker"
           /\ \A v \in MTThreads \ {t, u} : locks.breaker # v)
              => ENABLED CallEnter(u)

\* C12 witness: t1 is inside the wrapped function, t2 sleeps after a failed
\* call, and t3 has completed the admission check of the same breaker
C12_Witness ==
    /\ mt["t1"].pc = "in_func"
    /\ mt["t2"].pc = "sleeping"
    /\ mt["t3"].pc = "admitted_locked"
    /\ locks.breaker = "t3"

\* C13: in every state total_requests = successful_requests + failed_requests
\* + rejected_requests + the calls admitted and not yet recorded, and when no
\* thread is inside call, total_requests is the number of calls made.
C13_CountersAddUp ==
    MTName \in DOMAIN breakers =>
        LET st == breakers[MTName].stats
        IN /\ st.total_requests
                 = st.successful_requests + st.failed_requests + st.rejected_requests
                   + Cardinality({t \in MTThreads :
                                     mt[t].pc \in {"admitted_locked", "in_func"}})
           /\ st.total_requests <= calls
           /\ MTInCall = {} => st.total_requests = calls

\* C13 witness: four calls have returned: successes, failures and a rejection
C13_Witness ==
    /\ MTName \in DOMAIN breakers
    /\ MTInCall = {}
    /\ calls = 4
    /\ breakers[MTName].stats.total_requests = 4
    /\ breakers[MTName].stats.successful_requests >= 1
    /\ breakers[MTName].stats.failed_requests >= 1
    /\ breakers[MTName].stats.rejected_requests >= 1

\* C16: whatever the interleaving of get_breaker calls for one name, exactly
\* one CircuitBreaker is ever constructed for it, every call returns that
\* instance, and its config is the one the first call passed.
C16_GetBreakerIdempotent ==
    /\ created.count <= 1
    /\ MTName \in DOMAIN breakers <=> created.count = 1
    /\ MTName \in DOMAIN breakers => breakers[MTName].config = created.first_config
    /\ \A t \in MTThreads :
          mt[t].pc # "idle" /\ mt[t].pc # "sleeping" => mt[t].instance = 1

\* C16 witness: two threads hold the breaker they got, having passed
\* different configs; the breaker has the config of the first
C16_Witness ==
    /\ mt["t1"].pc = "have_breaker"
    /\ mt["t2"].pc = "have_breaker"
    /\ mt["t1"].config # mt["t2"].config
    /\ mt["t1"].instance = 1
    /\ mt["t2"].instance = 1
    /\ breakers[MTName].stats.failed_requests = 1
    /\ breakers[MTName].config = created.first_config

\* ========================================================== claims, SpecFB
\* C14: execute_with_fallback runs the primary sub-call under
\* "<operation_name>_primary" and runs the fallback sub-call, under
\* "<operation_name>_fallback", if and only if the primary result has
\* success = FALSE.  The fallback sub-call starts at attempt 1 with an empty
\* attempt list whatever the primary used, and a fallback that keeps failing
\* retryably without being rejected is invoked max_retry_attempts times.  The
\* two names have two breakers, and nothing the primary sub-call does changes
\* the fallback's breaker.  The returned recovery_strategy is
\* primary_success, fallback_success or both_failed accordingly.
C14_FallbackIffPrimaryFailed ==
    LET p == PrimaryName(fb.operation_name)
        f == FallbackName(fb.operation_name)
    IN /\ fb.phase = "primary" =>
             /\ operation_name = p
             /\ ~fb.fallback_started
             /\ BreakerOf(f) = fb.fallback_breaker_before
             /\ rm_config.circuit_breaker_enabled => p \in DOMAIN breakers
       /\ fb.phase = "fallback" =>
             /\ operation_name = f
             /\ p # f
             /\ ~fb.primary_result.success
             /\ attempt_num = Len(attempts) + (IF pc = "attempt" THEN 1 ELSE 0)
             /\ invoked <= rm_config.max_retry_attempts
             /\ rm_config.circuit_breaker_enabled =>
                   /\ {p, f} \subseteq DOMAIN breakers
                   /\ breakers[f].name = f
                   /\ breakers[p].name = p
             /\ (/\ pc = "done"
                 /\ result.recovery_strategy = "retry_exhausted"
                 /\ classify_error(result.error).is_retryable)
                   => /\ invoked = rm_config.max_retry_attempts
                      /\ Len(result.attempts) = rm_config.max_retry_attempts
       /\ fb.phase = "returned" =>
             /\ fb.fallback_started <=> ~fb.primary_result.success
             /\ fb.result.recovery_strategy =
                   IF fb.primary_result.success THEN "primary_success"
                   ELSE IF fb.fallback_result.success THEN "fallback_success"
                   ELSE "both_failed"
             /\ fb.result.success <=>
                   (fb.primary_result.success \/ fb.fallback_result.success)
             /\ fb.result.attempts =
                   IF fb.primary_result.success THEN fb.primary_result.attempts
                   ELSE fb.fallback_result.attempts

\* the primary used both its attempts and failed, having opened its own
\* breaker; the fallback then failed once and succeeded on its second
\* attempt, its breaker CLOSED with the one failure on it
C14_Witness ==
    /\ fb.phase = "returned"
    /\ rm_config.circuit_breaker_enabled
    /\ rm_config.max_retry_attempts = 2
    /\ Len(fb.primary_result.attempts) = 2
    /\ fb.primary_result.recovery_strategy = "retry_exhausted"
    /\ fb.result.recovery_strategy = "fallback_success"
    /\ Len(fb.result.attempts) = 2
    /\ breakers[PrimaryName(fb.operation_name)].state = OPEN
    /\ breakers[PrimaryName(fb.operation_name)].stats.failed_requests = 2
    /\ breakers[FallbackName(fb.operation_name)].state = CLOSED
    /\ breakers[FallbackName(fb.operation_name)].stats.failed_requests = 1

\* ====================================================== claims, SpecHealth
\* the breakers of the registry in a state
InState(registry, st) == {n \in DOMAIN registry : registry[n].state = st}

\* a step that is a call of get_health_status
HealthReported ==
    /\ health' = get_health_status(breakers, now)
    /\ DOMAIN breakers' = DOMAIN breakers
    /\ now' = now
    /\ controls' = controls

\* C18: the report of get_health_status against the breakers as the call
\* leaves them: healthy iff none is OPEN or HALF_OPEN (the empty registry
\* included), recovering iff none is OPEN and some is HALF_OPEN, degraded iff
\* some but not all are OPEN, unhealthy iff there is a breaker and all are
\* OPEN; the three counts are the numbers of breakers in each state and sum
\* to total_breakers, the size of the registry.
C18_HealthSummary ==
    [][ HealthReported =>
          LET all == DOMAIN breakers'
              open == InState(breakers', OPEN)
              half == InState(breakers', HALF_OPEN)
              closed == InState(breakers', CLOSED)
              h == health'
          IN /\ (h.overall_health = "healthy") <=> (open = {} /\ half = {})
             /\ (h.overall_health = "recovering") <=> (open = {} /\ half # {})
             /\ (h.overall_health = "degraded") <=> (open # {} /\ open # all)
             /\ (h.overall_health = "unhealthy") <=> (all # {} /\ open = all)
             /\ h.open_breakers = Cardinality(open)
             /\ h.half_open_breakers = Cardinality(half)
             /\ h.closed_breakers = Cardinality(closed)
             /\ h.total_breakers = Cardinality(all)
             /\ h.closed_breakers + h.half_open_breakers + h.open_breakers
                   = h.total_breakers ]_vars

\* a report of degraded over three breakers, one in each state: one was
\* forced open long enough ago to be HALF_OPEN by now, one later
C18_Witness ==
    /\ health.overall_health = "degraded"
    /\ health.total_breakers = 3
    /\ health.open_breakers = 1
    /\ health.half_open_breakers = 1
    /\ health.closed_breakers = 1
    /\ Cardinality(InState(breakers, OPEN)) = 1
    /\ Cardinality(InState(breakers, HALF_OPEN)) = 1

\* ======================================================= claims, SpecDelay
\* the delays slept so far in this execute_with_recovery, by attempt number
Slept == {i \in 1..Len(attempts) : i < Len(attempts) \/ pc = "sleeping"}
SleptDelay(i) == attempts[i].delay_before_attempt

\* C19: in exponential mode without jitter the delay computed after attempt
\* a is min(base_retry_delay * multiplier^(a-1), max_retry_delay), multiplier
\* being the retry_delay_multiplier of the error's classification (in tenths
\* here, the delay in whole milliseconds); it is at most max_retry_delay and
\* does not decrease from one attempt to the next.
C19_ExponentialDelay ==
    (rm_config.enable_exponential_backoff /\ ~rm_config.enable_jitter) =>
        \A a \in Slept :
            LET m == classify_error(attempts[a].error).retry_delay_multiplier
                num == rm_config.base_retry_delay * Pow(m, a - 1)
                den == Pow(10, a - 1)
                d == SleptDelay(a)
            IN /\ IF num >= rm_config.max_retry_delay * den
                  THEN d = rm_config.max_retry_delay
                  ELSE d * den <= num /\ num < (d + 1) * den
               /\ d <= rm_config.max_retry_delay
               /\ m >= 10 => \A b \in Slept : b < a => SleptDelay(b) <= d

\* base 2 s, max 5 s, multiplier 2.0: the delays after attempts 1, 2 and 3
\* are 2 s, 4 s and the cap
C19_Witness ==
    /\ rm_config.enable_exponential_backoff
    /\ ~rm_config.enable_jitter
    /\ pc = "sleeping"
    /\ Len(attempts) = 3
    /\ SleptDelay(1) = 2000
    /\ SleptDelay(2) = 4000
    /\ SleptDelay(3) = 5000
    /\ rm_config.max_retry_delay = 5000

\* C20: every delay slept between two attempts is at most max_retry_delay.
C20_SleptDelayWithinMax ==
    \A a \in Slept : SleptDelay(a) <= rm_config.max_retry_delay

ErrorCategories ==
    {"transient", "permanent", "permission", "configuration", "rate_limit", "network",
     "unknown"}
ErrorSeverities == {"low", "medium", "high", "critical"}

IsClassification(c) ==
    /\ DOMAIN c = DOMAIN _get_default_classification
    /\ c.category \in ErrorCategories
    /\ c.severity \in ErrorSeverities
    /\ c.is_retryable \in BOOLEAN
    /\ c.should_circuit_break \in BOOLEAN

IsSafeDefault(c) ==
    /\ c.category = "unknown"
    /\ c.severity = "medium"
    /\ ~c.is_retryable
    /\ c.recovery_action = "log_and_skip"

\* the classification of this error fails at some step inside classify_error
FailsInside(error) == IsRaised(_classify_error_try(AWS_ERROR_MAPPINGS, error))

C25_ShouldNotify ==
    /\ classifier.last.called =>
          LET severity == classifier.last.classification.severity
              error_count == classifier.last.error_count
          IN /\ severity \in {"critical", "high"} => classifier.last.notify
             /\ severity = "low" => ~classifier.last.notify
             /\ severity = "medium" => (classifier.last.notify <=> error_count >= 3)
    /\ (/\ classifier.previous.called
        /\ classifier.previous.classification = classifier.last.classification
        /\ classifier.previous.error_count <= classifier.last.error_count
        /\ classifier.previous.notify) => classifier.last.notify

\* a medium classification asked about with count 2 (no) and then with
\* count 3 (yes)
C25_Witness ==
    /\ classifier.previous.called
    /\ classifier.previous.classification = RateLimitClassification
    /\ classifier.last.classification = RateLimitClassification
    /\ classifier.previous.error_count = 2
    /\ ~classifier.previous.notify
    /\ classifier.last.error_count = 3
    /\ classifier.last.notify

\* =================================================== claims, SpecProcessor
\* C24: process_account_update never raises: it returns a result whose
\* status is success or failed; an account whose remote calls all succeed
\* gets success, and an account whose first remote call fails with a
\* non-retryable error gets failed with retry_count 0.
C24_ProcessNeverRaises ==
    processor.phase = "returned" =>
        /\ ~IsRaised(processor.outcome)
        /\ processor.outcome.status \in {"success", "failed"}
        /\ (/\ processor.contact_data_parses
            /\ \A i \in DOMAIN processor.api : processor.api[i].put = NoError) =>
              processor.outcome.status = "success"
        /\ (/\ processor.contact_data_parses
            /\ ~processor.api[1].current_equal
            /\ processor.api[1].put.type = "ClientError"
            /\ ~is_retryable_error(processor.api[1].put.code)) =>
              /\ processor.outcome.status = "failed"
              /\ processor.outcome.retry_count = 0

\* ======================================================== claims, SpecSync
\* the loop attempts every target account, in order, whatever failed before
SyncInvokesEveryTarget ==
    sync_op.phase = "returned" => sync_op.invoked = sync_op.target_accounts

\* the operation's status is failed iff every invocation failed
SyncFailedIffAllFailed ==
    sync_op.phase = "returned" =>
        /\ sync_op.status \in {"failed", "in_progress"}
        /\ sync_op.status = "failed"
              <=> SetOf(sync_op.target_accounts) \subseteq sync_op.invocation_fails

\* C23: initiate_account_synchronization invokes the account processor once
\* for every target account, in order, also after failed invocations; the
\* result of an account is marked failed exactly when its invocation failed;
\* and the operation's status is failed iff every invocation failed, and
\* in_progress otherwise.
C23_FailuresRecordedPerAccount ==
    /\ SyncInvokesEveryTarget
    /\ SyncFailedIffAllFailed
    /\ sync_op.phase = "returned" =>
          \A a \in SetOf(sync_op.target_accounts) :
             IF a \in sync_op.invocation_fails
             THEN a \in DOMAIN sync_op.results /\ sync_op.results[a] = "failed"
             ELSE /\ a \in DOMAIN sync_op.results <=> a \in DOMAIN sync_op.results_before
                  /\ a \in DOMAIN sync_op.results =>
                        sync_op.results[a] = sync_op.results_before[a]

\* ===================================================== claims, SpecTracker
\* C29: add_account_result for one account never removes or overwrites the
\* stored result of another account: whatever the interleaving of the
\* concurrent calls for distinct accounts, every account whose call has
\* returned has its entry, with the status it wrote, in the stored results.
C29_EveryResultStored ==
    \A a \in Accounts :
        processor[a].pc = "returned" =>
            /\ a \in DOMAIN sync_op.results
            /\ sync_op.results[a] = processor[a].status

\* ======================================================= claims, SpecLocks
HeldBy(t) == {l \in DOMAIN locks : locks[l] = t}
Waiting(t) == mt[t].program # <<>> /\ NextStep(t).do = "acquire"
CanStep(t) == mt[t].program # <<>> /\ (Waiting(t) => locks[NextStep(t).lock] = "free")

\* C30: no interleaving of the manager's and the breakers' methods
\* deadlocks: whenever some method is under way, some thread can take its
\* next step; a thread that holds a breaker lock holds no second breaker
\* lock and waits for no lock; and a thread that waits while holding a lock
\* holds the registry lock alone and waits for a breaker lock (the order
\* registry, then breaker).
C30_NoDeadlock ==
    /\ (\E t \in LockThreads : mt[t].program # <<>>) => \E t \in LockThreads : CanStep(t)
    /\ \A t \in LockThreads :
          /\ Cardinality(HeldBy(t) \cap BreakerNames) <= 1
          /\ HeldBy(t) \cap BreakerNames # {} => ~Waiting(t)
          /\ (Waiting(t) /\ HeldBy(t) # {}) =>
                /\ HeldBy(t) = {"manager"}
                /\ NextStep(t).lock \in BreakerNames
          /\ Waiting(t) => locks[NextStep(t).lock] # t

\* t1 holds the registry lock inside get_all_stats and waits for the lock
\* of op1, which t2 holds inside a call, while t3 waits for the registry lock
C30_Witness ==
    /\ mt["t1"].op = "get_all_stats"
    /\ HeldBy("t1") = {"manager"}
    /\ Waiting("t1")
    /\ NextStep("t1").lock = "op1"
    /\ locks["op1"] = "t2"
    /\ mt["t2"].op = "call_with_breaker"
    /\ Waiting("t3")
    /\ NextStep("t3").lock = "manager"

\* ======================================================= claims, SpecCycle
\* C33: a rejected call adds one to total_requests and to rejected_requests
\* and changes nothing else of the breaker (state, consecutive counters,
\* successful_requests, failed_requests, state_changes, current_timeout, the
\* time the state was entered); the retry_after of its CircuitBreakerError is
\* between 0 and current_timeout.
C33_RejectionFrame ==
    [][ CallRejected =>
          /\ circuit_breaker' =
                [circuit_breaker EXCEPT !.stats.total_requests = @ + 1,
                                        !.stats.rejected_requests = @ + 1]
          /\ circuit_breaker.state = OPEN
          /\ call_admission(circuit_breaker, now).raised.type = "CircuitBreakerError"
          /\ call_admission(circuit_breaker, now).raised.retry_after >= 0
          /\ call_admission(circuit_breaker, now).raised.retry_after
                <= circuit_breaker.stats.current_timeout ]_vars

\* a call was rejected by a breaker that had opened a second time (after a
\* failed trial call), while another call was inside the wrapped function
C33_Witness ==
    /\ circuit_breaker.state = OPEN
    /\ circuit_breaker.stats.rejected_requests = 1
    /\ circuit_breaker.stats.state_changes = 3
    /\ circuit_breaker.stats.total_requests = 4
    /\ controls = 0
    /\ \E t \in Threads : threads[t] = "in_func"

\* C34: in every reachable state stats.current_timeout equals
\* config.timeout, however often the breaker has opened.
C34_TimeoutNeverEscalates ==
    circuit_breaker.stats.current_timeout = circuit_breaker.config.timeout

\* the breaker is OPEN for the second time
C34_Witness ==
    /\ circuit_breaker.state = OPEN
    /\ circuit_breaker.stats.state_changes = 3
    /\ controls = 0
    /\ circuit_breaker.stats.current_timeout = circuit_breaker.config.timeout


\* a step of reset(): CLOSED, a new statistics object, the timer restarted
ResetStep ==
    /\ controls' # controls
    /\ circuit_breaker' = reset(circuit_breaker, now)

\* a step that counts a change of state exactly when there is one, and then
\* restarts the state timer
CountsStateChange ==
    /\ circuit_breaker'.state # circuit_breaker.state =>
          /\ circuit_breaker'.stats.state_changes = circuit_breaker.stats.state_changes + 1
          /\ circuit_breaker'.last_state_change = now
    /\ circuit_breaker'.state = circuit_breaker.state =>
          /\ circuit_breaker'.stats.state_changes = circuit_breaker.stats.state_changes
          /\ circuit_breaker'.last_state_change = circuit_breaker.last_state_change

\* C35 as stated: state_changes grows by one on every change of state, and
\* neither it nor the time the state was entered changes in any other step.
C35_StateChangesCountEveryChange == [][CountsStateChange]_vars

\* C35, amended: every step other than reset() adds one to state_changes
\* exactly when it changes the state; reset() sets state_changes to 0 and
\* restarts the timer whatever the state was; force_open() on an OPEN
\* breaker, force_closed() on a CLOSED one and a failure recorded while OPEN
\* leave state, state_changes and the time the state was entered as they are.
C35_StateChangesExceptReset ==
    [][ /\ CountsStateChange \/ ResetStep
        /\ ResetStep =>
              /\ circuit_breaker'.state = CLOSED
              /\ circuit_breaker'.stats.state_changes = 0
              /\ circuit_breaker'.last_state_change = now
        /\ (FailureRecorded /\ circuit_breaker.state = OPEN) =>
              /\ circuit_breaker'.state = OPEN
              /\ circuit_breaker'.stats.state_changes = circuit_breaker.stats.state_changes
              /\ circuit_breaker'.last_state_change = circuit_breaker.last_state_change
        /\ circuit_breaker.state = OPEN =>
              force_open(circuit_breaker, now) = circuit_breaker
        /\ circuit_breaker.state = CLOSED =>
              force_closed(circuit_breaker, now) = circuit_breaker ]_vars

\* a failure of a call admitted before the breaker opened was recorded after
\* it opened, one clock unit later: the breaker is still in its first OPEN
\* period, entered at time 0
C35_Witness ==
    /\ circuit_breaker.state = OPEN
    /\ circuit_breaker.consecutive_failures = circuit_breaker.config.failure_threshold + 1
    /\ circuit_breaker.stats.state_changes = 1
    /\ circuit_breaker.last_state_change = 0
    /\ now = 1
    /\ controls = 0


\* C37: in every reachable state, also when reset() runs between the
\* admission and the completion of a call,
\* successful_requests + failed_requests + rejected_requests <= total_requests.
C37_CompletedWithinTotal ==
    circuit_breaker.stats.successful_requests
      + circuit_breaker.stats.failed_requests
      + circuit_breaker.stats.rejected_requests
        <= circuit_breaker.stats.total_requests


\* ======================================================== claims, SpecRead
\* what reading the state of breaker b at time t leaves: HALF_OPEN entered at
\* t when b is OPEN and its timeout has elapsed, b itself otherwise
AfterRead(b, t) ==
    IF b.state = OPEN /\ t - b.last_state_change >= b.stats.current_timeout
    THEN [b EXCEPT !.state = HALF_OPEN,
                   !.stats.state_changes = @ + 1,
                   !.consecutive_successes = 0,
                   !.last_state_change = t]
    ELSE b

\* a step of get_state, get_all_stats or get_health_status
ReadStep ==
    /\ now' = now
    /\ controls' = controls
    /\ DOMAIN breakers' = DOMAIN breakers
    /\ calls' = calls

\* C36: get_state(), get_all_stats() and get_health_status() move every OPEN
\* breaker they read whose timeout has elapsed to HALF_OPEN (state_changes
\* + 1, consecutive_successes 0, the state timer restarted), which is what the
\* admission of a call does to it apart from counting the request, and they
\* change nothing else: get_state() reads one breaker, the other two read all.
C36_ReadsMoveElapsedOpen ==
    [][ ReadStep =>
          /\ \/ breakers' = [n \in DOMAIN breakers |-> AfterRead(breakers[n], now)]
             \/ \E n \in DOMAIN breakers :
                   breakers' = [breakers EXCEPT ![n] = AfterRead(@, now)]
          /\ registry_after_get_all_stats(breakers, now)
                = [n \in DOMAIN breakers |-> AfterRead(breakers[n], now)]
          /\ \A n \in DOMAIN breakers :
                /\ get_state(breakers[n], now).breaker = AfterRead(breakers[n], now)
                /\ get_state(breakers[n], now).state = AfterRead(breakers[n], now).state
                /\ AfterRead(breakers[n], now) # breakers[n] =>
                      call_admission(breakers[n], now).breaker
                         = [AfterRead(breakers[n], now) EXCEPT !.stats.total_requests = @ + 1]
          /\ health' # health =>
                /\ health' = get_health_status(breakers, now)
                /\ breakers' = [n \in DOMAIN breakers |-> AfterRead(breakers[n], now)] ]_vars

\* a breaker that served one successful call and was forced open is HALF_OPEN
\* one clock unit later with no further call counted, and get_health_status
\* reported the registry as recovering
C36_Witness ==
    /\ health.overall_health = "recovering"
    /\ \E n \in DOMAIN breakers :
          /\ breakers[n].state = HALF_OPEN
          /\ breakers[n].stats.total_requests = 1
          /\ breakers[n].stats.successful_requests = 1
          /\ breakers[n].stats.state_changes = 2
          /\ breakers[n].consecutive_successes = 0
          /\ breakers[n].last_state_change = 1


\* ================================================== claims, SpecRM, sleeps
\* C32: within one execute_with_recovery, time.sleep is called only after an
\* attempt that failed with a retryable error raised by the function and was
\* not the last allowed one, and it is what leads from each attempt to the
\* next: sleeps = attempt_num - 1 during the loop, so none precedes attempt
\* 1, and the call returns right after a success, a non-retryable failure,
\* the last allowed attempt or a rejection by the breaker, without sleeping.
C32_SleepOnlyBetweenAttempts ==
    [][ /\ sleeps' = sleeps + 1 =>
              /\ pc = "sleeping"
              /\ Len(attempts) = attempt_num
              /\ ~attempts[attempt_num].success
              /\ attempts[attempt_num].error = last_error
              /\ last_error.type # "CircuitBreakerError"
              /\ classify_error(last_error).is_retryable
              /\ attempt_num < rm_config.max_retry_attempts
              /\ attempt_num' = attempt_num + 1
              /\ pc' = "attempt"
        /\ (attempt_num >= 1 /\ attempt_num' > attempt_num) =>
              (sleeps' = sleeps + 1 /\ attempt_num' = attempt_num + 1)
        /\ pc \in {"attempt", "sleeping"} => sleeps = attempt_num - 1
        /\ pc' = "done" =>
              /\ sleeps' = sleeps
              /\ attempts' # <<>> => sleeps' = Len(attempts') - 1
        /\ (pc = "attempt" /\ pc' = "sleeping") =>
              /\ ~Blocked
              /\ script[invoked'] \in RetryableOutcomes
              /\ attempt_num < rm_config.max_retry_attempts ]_vars

\* a call that slept twice: two retryable failures and a third attempt
C32_Witness ==
    /\ pc = "done"
    /\ sleeps = 2
    /\ Len(attempts) = 3
    /\ invoked = 3
    /\ ~attempts[1].success
    /\ ~attempts[2].success


CurrentCappedDelay ==
    CappedDelay(rm_config, attempt_num, classify_error(last_error),
                rm_config.base_retry_delay, rm_config.max_retry_delay)
CurrentJitterRange == (CurrentCappedDelay * rm_config.jitter_factor) \div 100

\* C40: with jitter enabled the delay slept is max(0.1 s, d + j) for some j
\* with |j| <= d * jitter_factor, so it is at least 0.1 s and at most
\* d * (1 + jitter_factor) unless it is the floor; with jitter disabled it is
\* exactly d, also when d is below 0.1 s.
C40_JitteredDelay ==
    pc = "sleeping" =>
        IF rm_config.enable_jitter
        THEN /\ \E j \in -CurrentJitterRange..CurrentJitterRange :
                    delay = Max(MinJitteredDelay, CurrentCappedDelay + j)
             /\ delay >= MinJitteredDelay
             /\ \/ delay <= CurrentCappedDelay + CurrentJitterRange
                \/ delay = MinJitteredDelay
        ELSE delay = CurrentCappedDelay

\* with jitter, a capped delay of 0.05 s is slept as 0.1 s: the floor, above
\* d * (1 + jitter_factor)
C40_Witness ==
    /\ pc = "sleeping"
    /\ rm_config.enable_jitter
    /\ CurrentCappedDelay = 50
    /\ CurrentCappedDelay + CurrentJitterRange < MinJitteredDelay
    /\ delay = MinJitteredDelay


\* ======================================================= claims, SpecAlias
\* C39: whatever the callers did to the classifications they were given, a
\* classify_error call returns for every error what it returned before any
\* of them was changed.
C39_ClassifyReturnsFresh ==
    \A error \in ClassifyErrors :
        classify_error_with(classifier.mappings, error) = classify_error(error)


\* ======================================================== claims, SpecLive
\* C31: when the wrapped function fails only finitely often, time advances
\* and the callers keep calling, the breaker is eventually CLOSED for good;
\* and a call or a get_state on an OPEN breaker whose timeout has elapsed
\* always moves it to HALF_OPEN, the call being admitted.
C31_EventuallyClosedForGood ==
    /\ <>[](circuit_breaker.state = CLOSED)
    /\ [][ (/\ circuit_breaker.state = OPEN
            /\ Elapsed >= circuit_breaker.stats.current_timeout
            /\ \/ RequestCounted
               \/ (threads' = threads /\ circuit_breaker' # circuit_breaker))
           => /\ circuit_breaker'.state = HALF_OPEN
              /\ RequestCounted => CallAdmitted ]_vars

\* the breaker opened, opened again after a failed trial call, and is CLOSED
\* after the last failure of the function
C31_Witness ==
    /\ circuit_breaker.state = CLOSED
    /\ circuit_breaker.stats.failed_requests = MaxLiveFailures
    /\ circuit_breaker.stats.state_changes >= 5
    /\ \A t \in Threads : threads[t] = "idle"

====
